---- MODULE Spec2Model ----
(***************************************************************************)
(* A model of slq, the command-line client for SL departures               *)
(* (src/src/client.c, src/src/types.c, src/src/cli.c, src/src/main.c).     *)
(*                                                                         *)
(* C strings are sequences of bytes (0..255, no NUL inside); the byte past *)
(* the end reads as the terminating NUL.  A char* is NULL (the empty       *)
(* tuple) or a one-element tuple holding the string it points to.          *)
(***************************************************************************)
EXTENDS Integers, Sequences, FiniteSets, TLC

VARIABLES
    designation,   \* SpecMatch: first argument of line_matches_filter
    line_filter,   \* SpecMatch: second argument of line_matches_filter
    match_ret,     \* SpecMatch: value returned (-1 while not yet called)
    payload,       \* the decoded departures response (json_loads of the text)
    parse_ret,     \* value returned by parse_departures_json (1: not called)
    dlist,         \* the departure_list_t the program holds, or NULL
    free_count,    \* ghost: free_count[blk], times the strings of blk were freed
    normalized,    \* ghost: Visible(dlist) as parse_departures_json left it
    last_op,       \* ghost: the last filter applied, its token, the list before
    pc,            \* Spec: where sl_get_departures stands
    arg_station,   \* Spec: the station argument
    arg_line,      \* Spec: line_filter, or NULL
    arg_transport, \* Spec: transport_filter, or NULL
    arg_destination, \* Spec: destination_filter, or NULL
    station_id,    \* Spec: the local station_id
    fetches,       \* Spec, ghost: the requests performed, in order
    ret,           \* Spec: value returned by sl_get_departures (1: none yet)
    result,        \* Spec: *result, the caller's list pointer
    handler_ret,   \* Spec: value returned by handle_departures (1: none yet)
    exit_code,     \* Spec: value returned by main (-1: still running)
    arg_query,     \* SpecSearch: the query argument
    request,       \* SpecSites, SpecSearch: the site-list request's outcome
    alloc,         \* SpecSearch: which allocation of the filter loop fails
    stops_ret,     \* SpecSites, SpecSearch: value returned (1: not called)
    slist,         \* SpecSites, SpecSearch: the stop_list_t delivered, or NULL
    time_str,      \* SpecTime: the timestamp argument
    output_size,   \* SpecTime: size of the caller's buffer
    now_tm,        \* SpecTime: the current local civil time, *localtime(&now)
    time_output,   \* SpecTime: the caller's buffer
    time_ret,      \* SpecTime: value returned by parse_departure_time (1: none)
    wait_ret,      \* SpecTime: value returned by calculate_wait_minutes (-2: none)
    rows,          \* Spec: the arguments of each printf of a table row, in order
    argv,          \* main: argv[1], argv[2], ... of the command line
    args,          \* main: the cli_args_t structure
    cli_heap,      \* main, ghost: strings parse_args allocated, strings freed
    client,        \* main, ghost: clients created, clients freed
    curl           \* main, ghost: libcurl's global state, number of cleanups

matchVars == <<designation, line_filter, match_ret>>

listVars == <<payload, parse_ret, dlist, free_count, normalized, last_op>>

argVars == <<arg_station, arg_line, arg_transport, arg_destination>>

exitVars == <<handler_ret, exit_code>>

callVars == <<pc, argVars, station_id, fetches, ret, result, exitVars>>

siteVars == <<arg_query, request, alloc, stops_ret, slist>>

timeVars == <<time_str, output_size, now_tm, time_output, time_ret, wait_ret>>

showVars == <<rows>>

mainVars == <<argv, args, cli_heap, client, curl>>

auxVars == <<siteVars, timeVars, showVars, mainVars>>

vars == <<matchVars, listVars, callVars, auxVars>>

(***************************************************************************)
(* Bounds of the model.                                                    *)
(***************************************************************************)
\* longest designation / line token enumerated by SpecMatch
MaxLen == 3

\* most elements in the departures array of a response, SpecFilter
MaxElems == 3

\* most elements in the departures array of a response, SpecParse
MaxParseElems == 2

\* most elements in the departures array of a response, Spec
MaxFetched == 2

\* most elements in the array of a site-list response, SpecSites
MaxSites == 3

(***************************************************************************)
(* libc on the "C" locale (main never calls setlocale).                    *)
(***************************************************************************)
NULL == <<>>

Ptr(s) == <<s>>

Str(p) == p[1]

\* s[i] with the terminating NUL at Len(s)+1 (i is 1-based)
CharAt(s, i) == IF i <= Len(s) THEN s[i] ELSE 0

\* <ctype.h> tolower: only 'A'..'Z' have a lower-case form
tolower(c) == IF c \in 65..90 THEN c + 32 ELSE c

\* <ctype.h> isalpha: 'A'..'Z' and 'a'..'z'; TRUE stands for "non-zero"
isalpha(c) == c \in 65..90 \/ c \in 97..122

\* <ctype.h> isspace: space, \t \n \v \f \r
isspace(c) == c = 32 \/ c \in 9..13

isdigit(c) == c \in 48..57

\* <string.h> strstr(haystack, needle) != NULL
strstr(haystack, needle) ==
    \E i \in 0..(Len(haystack) - Len(needle)) :
        SubSeq(haystack, i + 1, i + Len(needle)) = needle

\* <strings.h> strcasecmp: byte by byte on the lower-cased bytes, up to the
\* first difference or the NUL; the value is the difference of those bytes
RECURSIVE strcasecmp_from(_, _, _)
strcasecmp_from(s1, s2, i) ==
    LET c1 == tolower(CharAt(s1, i))
        c2 == tolower(CharAt(s2, i))
    IN  IF c1 # c2 THEN c1 - c2
        ELSE IF c1 = 0 THEN 0
        ELSE strcasecmp_from(s1, s2, i + 1)

strcasecmp(s1, s2) == strcasecmp_from(s1, s2, 1)

\* <strings.h> strncasecmp: the same over at most n bytes
RECURSIVE strncasecmp_from(_, _, _, _)
strncasecmp_from(s1, s2, i, n) ==
    IF n = 0 THEN 0
    ELSE LET c1 == tolower(CharAt(s1, i))
             c2 == tolower(CharAt(s2, i))
         IN  IF c1 # c2 THEN c1 - c2
             ELSE IF c1 = 0 THEN 0
             ELSE strncasecmp_from(s1, s2, i + 1, n - 1)

strncasecmp(s1, s2, n) == strncasecmp_from(s1, s2, 1, n)

(***************************************************************************)
(* client.c: string utilities.                                             *)
(***************************************************************************)
\* str_to_lower: a fresh copy with every byte passed through tolower
str_to_lower(str) == [i \in 1..Len(str) |-> tolower(str[i])]

\* str_contains_case_insensitive: 1 when the lower-cased needle occurs in the
\* lower-cased haystack
str_contains_case_insensitive(haystack, needle) ==
    IF strstr(str_to_lower(haystack), str_to_lower(needle)) THEN 1 ELSE 0

\* the variant of line_matches_filter that accepts any longer designation
\* with the prefix, whatever follows it
line_matches_filter_any_suffix(desig, filter) ==
    IF desig = NULL \/ filter = NULL THEN 0
    ELSE IF strcasecmp(Str(desig), Str(filter)) = 0 THEN 1
    ELSE IF strncasecmp(Str(desig), Str(filter), Len(Str(filter))) = 0
            /\ Len(Str(desig)) > Len(Str(filter))
         THEN 1
         ELSE 0

\* line_matches_filter: exact match first, then prefix followed by a letter
line_matches_filter(desig, filter) ==
    IF desig = NULL \/ filter = NULL THEN 0
    ELSE IF strcasecmp(Str(desig), Str(filter)) = 0 THEN 1
    ELSE LET filter_len == Len(Str(filter))
         IN  IF strncasecmp(Str(desig), Str(filter), filter_len) = 0
                /\ Len(Str(desig)) > filter_len
             THEN (IF isalpha(Str(desig)[filter_len + 1]) THEN 1 ELSE 0)
             ELSE 0

(***************************************************************************)
(* libc strtoul(nptr, &endptr, 10) with a 64-bit unsigned long, the        *)
(* conversion to a 32-bit unsigned int, and snprintf("%u").  The values    *)
(* are kept in 16-bit limbs, least significant first.                      *)
(***************************************************************************)
ULONG_ZERO == <<0, 0, 0, 0>>

ULONG_MAX == <<65535, 65535, 65535, 65535>>

\* limbs * 10 + digit, with the carry out of the 64 bits
ulong_mul10_add(limbs, digit) ==
    LET t1 == limbs[1] * 10 + digit
        t2 == limbs[2] * 10 + (t1 \div 65536)
        t3 == limbs[3] * 10 + (t2 \div 65536)
        t4 == limbs[4] * 10 + (t3 \div 65536)
    IN  [value |-> <<t1 % 65536, t2 % 65536, t3 % 65536, t4 % 65536>>,
         carry |-> t4 \div 65536]

\* 2^64 - limbs (mod 2^64): what strtoul returns for a text with a minus sign
ulong_negate(limbs) ==
    LET low == CHOOSE i \in 1..5 :
                   /\ (i = 5 \/ limbs[i] # 0)
                   /\ \A j \in 1..(i - 1) : limbs[j] = 0
    IN  [i \in 1..4 |->
            IF i < low THEN 0
            ELSE IF i = low THEN 65536 - limbs[i]
            ELSE 65535 - limbs[i]]

\* the digits from position i on: value so far, overflow seen, end position
RECURSIVE strtoul_digits(_, _, _, _)
strtoul_digits(nptr, i, acc, overflow) ==
    IF isdigit(CharAt(nptr, i))
    THEN LET next == ulong_mul10_add(acc, CharAt(nptr, i) - 48)
         IN  strtoul_digits(nptr, i + 1, next.value, overflow \/ next.carry # 0)
    ELSE [value |-> acc, overflow |-> overflow, endptr |-> i]

RECURSIVE skip_space(_, _)
skip_space(nptr, i) ==
    IF isspace(CharAt(nptr, i)) THEN skip_space(nptr, i + 1) ELSE i

\* strtoul: leading white space, an optional sign, then decimal digits.
\* endptr is the position (1-based) of the first byte not converted, the
\* start of the text when there are no digits; the value saturates at
\* ULONG_MAX on overflow and is negated (mod 2^64) after a minus sign.
strtoul(nptr) ==
    LET start  == skip_space(nptr, 1)
        signed == CharAt(nptr, start) = 45 \/ CharAt(nptr, start) = 43
        first  == IF signed THEN start + 1 ELSE start
        conv   == strtoul_digits(nptr, first, ULONG_ZERO, FALSE)
    IN  IF conv.endptr = first
        THEN [value |-> ULONG_ZERO, endptr |-> 1]
        ELSE [value |-> IF conv.overflow THEN ULONG_MAX
                        ELSE IF CharAt(nptr, start) = 45
                             THEN ulong_negate(conv.value)
                             ELSE conv.value,
              endptr |-> conv.endptr]

\* (unsigned int) of an unsigned long: the low 32 bits
to_unsigned_int(limbs) == [lo |-> limbs[1], hi |-> limbs[2]]

\* snprintf(buf, 32, "%u", id): the decimal digits of a 32-bit value
RECURSIVE u32_to_decimal(_)
u32_to_decimal(id) ==
    IF id.hi = 0 /\ id.lo < 10 THEN <<48 + id.lo>>
    ELSE LET t == (id.hi % 10) * 65536 + id.lo
         IN  Append(u32_to_decimal([hi |-> id.hi \div 10, lo |-> t \div 10]),
                    48 + (t % 10))

(***************************************************************************)
(* jansson values, as parse_departures_json reads them.  A value is a      *)
(* record with its type; "absent" is the NULL that json_object_get gives   *)
(* for a missing key or for a value that is no object, "invalid" the NULL  *)
(* that json_loads gives for a text that is not JSON.                      *)
(***************************************************************************)
JAbsent == [type |-> "absent", str |-> <<>>]

JNull == [type |-> "null", str |-> <<>>]

JInteger == [type |-> "integer", str |-> <<>>]

JString(s) == [type |-> "string", str |-> s]

JInt(n) == [type |-> "integer", int |-> n]

json_is_integer(json) == json.type = "integer"

json_integer_value(json) == IF json_is_integer(json) THEN json.int ELSE 0

json_is_string(json) == json.type = "string"

json_is_object(json) == json.type = "object"

json_is_array(json) == json.type = "array"

json_string_value(json) == IF json_is_string(json) THEN Ptr(json.str) ELSE NULL

json_object_get(json, key) ==
    IF json_is_object(json) THEN json[key] ELSE JAbsent

(***************************************************************************)
(* types.c: the departure list.  departures[0..capacity-1] are the slots   *)
(* of the array; a slot holds the four char* of a departure_t and, as a    *)
(* ghost, the number blk of the allocation its strings came from (0: none).*)
(* freed[blk] counts how often the strings of allocation blk were freed.   *)
(***************************************************************************)
\* a slot of malloc'ed or realloc'ed memory nothing was stored in yet; the
\* program reads no slot at or above count
FreshSlot ==
    [destination |-> NULL, expected |-> NULL,
     line |-> [designation |-> NULL, group_of_lines |-> NULL], blk |-> 0]

\* initial capacity of a departure list
DEPARTURE_LIST_CAPACITY == 20

create_departure_list ==
    [departures |-> [i \in 0..(DEPARTURE_LIST_CAPACITY - 1) |-> FreshSlot],
     count |-> 0,
     capacity |-> DEPARTURE_LIST_CAPACITY]

strdup_safe(str) == str

\* free_departure: frees the four strings and clears the pointers; free(NULL)
\* does nothing
free_departure(departure, freed) ==
    [departure |-> FreshSlot,
     freed |-> IF departure.destination # NULL \/ departure.expected # NULL
                  \/ departure.line.designation # NULL
                  \/ departure.line.group_of_lines # NULL
               THEN [freed EXCEPT ![departure.blk] = @ + 1]
               ELSE freed]

\* free_departure_list: free_departure on slots 0..count-1 (then the array
\* and the list itself); gives the heap's free counts
RECURSIVE free_departures_from(_, _, _)
free_departures_from(list, freed, i) ==
    IF i >= list.count THEN freed
    ELSE free_departures_from(list, free_departure(list.departures[i], freed).freed,
                              i + 1)

free_departure_list(list, freed) ==
    IF list = NULL THEN freed ELSE free_departures_from(list, freed, 0)

\* add_departure_to_list: doubles the capacity when the list is full, then
\* stores copies of the four strings in slot count and increments count
\* (realloc and strdup_safe succeed here; a NULL group_of_lines is accepted)
add_departure_to_list(list, destination, expected, desig, group_of_lines, blk) ==
    IF list = NULL \/ destination = NULL \/ expected = NULL \/ desig = NULL
    THEN [ret |-> -1, list |-> list]
    ELSE LET new_capacity == IF list.count >= list.capacity
                             THEN list.capacity * 2 ELSE list.capacity
             grown == [i \in 0..(new_capacity - 1) |->
                          IF i < list.capacity THEN list.departures[i]
                          ELSE FreshSlot]
             departure ==
                 [destination |-> strdup_safe(destination),
                  expected |-> strdup_safe(expected),
                  line |-> [designation |-> strdup_safe(desig),
                            group_of_lines |-> strdup_safe(group_of_lines)],
                  blk |-> blk]
         IN  [ret |-> 0,
              list |-> [departures |-> [grown EXCEPT ![list.count] = departure],
                        count |-> list.count + 1,
                        capacity |-> new_capacity]]

\* the departures a caller may read: slots 0..count-1, in order
Visible(list) == [i \in 1..list.count |-> list.departures[i - 1]]

(***************************************************************************)
(* client.c: parse_departures_json.                                        *)
(***************************************************************************)
\* the body of json_array_foreach with a missing group_of_lines replaced by
\* the empty string instead of causing the element to be skipped
parse_departure_element_default_group(list, departure, index) ==
    LET destination_obj == json_object_get(departure, "destination")
        expected_obj    == json_object_get(departure, "expected")
        line_obj        == json_object_get(departure, "line")
    IN  IF json_is_string(destination_obj) /\ json_is_string(expected_obj)
           /\ json_is_object(line_obj)
        THEN LET designation_obj == json_object_get(line_obj, "designation")
                 group_obj       == json_object_get(line_obj, "group_of_lines")
             IN  IF json_is_string(designation_obj)
                 THEN add_departure_to_list(list,
                          json_string_value(destination_obj),
                          json_string_value(expected_obj),
                          json_string_value(designation_obj),
                          IF json_is_string(group_obj)
                          THEN json_string_value(group_obj) ELSE Ptr(<<>>),
                          index + 1)
                 ELSE [ret |-> 0, list |-> list]
        ELSE [ret |-> 0, list |-> list]

\* the body of json_array_foreach for the element at index (0-based)
parse_departure_element(list, departure, index) ==
    LET destination_obj == json_object_get(departure, "destination")
        expected_obj    == json_object_get(departure, "expected")
        line_obj        == json_object_get(departure, "line")
    IN  IF json_is_string(destination_obj) /\ json_is_string(expected_obj)
           /\ json_is_object(line_obj)
        THEN LET designation_obj == json_object_get(line_obj, "designation")
                 group_obj       == json_object_get(line_obj, "group_of_lines")
             IN  IF json_is_string(designation_obj)
                 THEN LET group == IF json_is_string(group_obj)
                                   THEN json_string_value(group_obj) ELSE NULL
                      IN  IF group # NULL
                          THEN add_departure_to_list(list,
                                   json_string_value(destination_obj),
                                   json_string_value(expected_obj),
                                   json_string_value(designation_obj),
                                   group, index + 1)
                          ELSE [ret |-> 0, list |-> list]
                 ELSE [ret |-> 0, list |-> list]
        ELSE [ret |-> 0, list |-> list]

RECURSIVE parse_departures_loop(_, _, _)
parse_departures_loop(elems, index, list) ==
    IF index >= Len(elems) THEN [ret |-> 0, result |-> list]
    ELSE LET added == parse_departure_element(list, elems[index + 1], index)
         IN  IF added.ret # 0 THEN [ret |-> -1, result |-> NULL]
             ELSE parse_departures_loop(elems, index + 1, added.list)

\* parse_departures_json with the skipping of elements that have no
\* group_of_lines left out: such an element fails the call
parse_departures_json_strict(root) ==
    IF root.type = "invalid" THEN [ret |-> -1, result |-> NULL]
    ELSE LET departures_obj == json_object_get(root, "departures")
         IN  IF ~json_is_array(departures_obj) THEN [ret |-> -1, result |-> NULL]
             ELSE IF \E i \in 1..Len(departures_obj.elems) :
                        ~json_is_string(json_object_get(
                            json_object_get(departures_obj.elems[i], "line"),
                            "group_of_lines"))
                  THEN [ret |-> -1, result |-> NULL]
                  ELSE parse_departures_loop(departures_obj.elems, 0,
                                             create_departure_list)

\* parse_departures_json: root is json_loads(json_data)
parse_departures_json(root) ==
    IF root.type = "invalid" THEN [ret |-> -1, result |-> NULL]
    ELSE LET departures_obj == json_object_get(root, "departures")
         IN  IF ~json_is_array(departures_obj) THEN [ret |-> -1, result |-> NULL]
             ELSE parse_departures_loop(departures_obj.elems, 0,
                                        create_departure_list)

(***************************************************************************)
(* types.c: the stop list, and client.c: parse_sites_json, sl_get_sites,   *)
(* sl_find_station_id.  A station id is an unsigned int, kept as two       *)
(* 16-bit halves like the value of "%u" above.                             *)
(***************************************************************************)
U32_ZERO == [lo |-> 0, hi |-> 0]

\* (unsigned int) of a json_int_t: the value mod 2^32
int_to_unsigned_int(n) ==
    IF n >= 0 THEN [lo |-> n % 65536, hi |-> n \div 65536]
    ELSE LET m == 0 - n
         IN  [lo |-> (65536 - (m % 65536)) % 65536,
              hi |-> (65535 - (m \div 65536)
                      + (IF m % 65536 = 0 THEN 1 ELSE 0)) % 65536]

FreshStop == [name |-> NULL, id |-> U32_ZERO]

\* initial capacity of a stop list
STOP_LIST_CAPACITY == 10

create_stop_list ==
    [stops |-> [i \in 0..(STOP_LIST_CAPACITY - 1) |-> FreshStop],
     count |-> 0,
     capacity |-> STOP_LIST_CAPACITY]

\* add_stop_to_list (realloc and strdup_safe succeed here)
add_stop_to_list(list, name, id) ==
    IF list = NULL \/ name = NULL THEN [ret |-> -1, list |-> list]
    ELSE LET new_capacity == IF list.count >= list.capacity
                             THEN list.capacity * 2 ELSE list.capacity
             grown == [i \in 0..(new_capacity - 1) |->
                          IF i < list.capacity THEN list.stops[i] ELSE FreshStop]
         IN  [ret |-> 0,
              list |-> [stops |-> [grown EXCEPT ![list.count] =
                                      [name |-> strdup_safe(name), id |-> id]],
                        count |-> list.count + 1,
                        capacity |-> new_capacity]]

RECURSIVE parse_sites_loop(_, _, _)
parse_sites_loop(elems, index, sites) ==
    IF index >= Len(elems) THEN [ret |-> 0, result |-> sites]
    ELSE LET site     == elems[index + 1]
             name_obj == json_object_get(site, "name")
             id_obj   == json_object_get(site, "id")
         IN  IF json_is_string(name_obj) /\ json_is_integer(id_obj)
             THEN LET added == add_stop_to_list(sites, json_string_value(name_obj),
                                   int_to_unsigned_int(json_integer_value(id_obj)))
                  IN  IF added.ret # 0 THEN [ret |-> -1, result |-> NULL]
                      ELSE parse_sites_loop(elems, index + 1, added.list)
             ELSE parse_sites_loop(elems, index + 1, sites)

\* parse_sites_json: root is json_loads(json_data)
parse_sites_json(root) ==
    IF root.type = "invalid" THEN [ret |-> -1, result |-> NULL]
    ELSE IF ~json_is_array(root) THEN [ret |-> -1, result |-> NULL]
    ELSE parse_sites_loop(root.elems, 0, create_stop_list)

\* the outcome of curl_easy_perform and CURLINFO_RESPONSE_CODE for one
\* request: the result code, the HTTP status and the body received
CURLE_OK == 0

HTTP_OK == 200

\* sl_get_sites on the outcome of its request
sl_get_sites(outcome) ==
    IF outcome.res # CURLE_OK THEN [ret |-> -1, result |-> NULL]
    ELSE IF outcome.code # HTTP_OK THEN [ret |-> -1, result |-> NULL]
    ELSE parse_sites_json(outcome.body)

RECURSIVE find_station_loop(_, _, _)
find_station_loop(sites, name_lower, i) ==
    IF i >= sites.count THEN U32_ZERO
    ELSE IF strstr(str_to_lower(Str(sites.stops[i].name)), name_lower)
         THEN sites.stops[i].id
         ELSE find_station_loop(sites, name_lower, i + 1)

\* sl_find_station_id on the outcome of the site-list request
sl_find_station_id(station_name, outcome) ==
    LET got == sl_get_sites(outcome)
    IN  IF got.ret # 0 THEN U32_ZERO
        ELSE find_station_loop(got.result, str_to_lower(station_name), 0)

(***************************************************************************)
(* client.c: the three filters.  Each is one pass over slots 0..count-1    *)
(* that moves a retained departure down to write_idx and frees a rejected  *)
(* one; the filter returns the list and the heap's free counts.            *)
(***************************************************************************)
\* the retained branch without the move to write_idx
retain_departure_no_move(list, read_idx, write_idx) == list

\* if (write_idx != read_idx) departures[write_idx] = departures[read_idx];
retain_departure(list, read_idx, write_idx) ==
    IF write_idx # read_idx
    THEN [list EXCEPT !.departures[write_idx] = list.departures[read_idx]]
    ELSE list

\* the rejection of a departure with its strings left allocated
reject_departure_leaks(list, freed, read_idx) == [list |-> list, freed |-> freed]

\* free_departure(&departures->departures[read_idx]);
reject_departure(list, freed, read_idx) ==
    LET f == free_departure(list.departures[read_idx], freed)
    IN  [list |-> [list EXCEPT !.departures[read_idx] = f.departure],
         freed |-> f.freed]

\* the pass of filter_departures_by_line leaving the loop at the first
\* departure that does not match, instead of going on to the next
RECURSIVE filter_by_line_loop_break(_, _, _, _, _)
filter_by_line_loop_break(list, freed, line, read_idx, write_idx) ==
    IF read_idx >= list.count
    THEN [list |-> [list EXCEPT !.count = write_idx], freed |-> freed]
    ELSE IF line_matches_filter(list.departures[read_idx].line.designation, line) # 0
         THEN filter_by_line_loop_break(retain_departure(list, read_idx, write_idx),
                                        freed, line, read_idx + 1, write_idx + 1)
         ELSE LET r == reject_departure(list, freed, read_idx)
              IN  [list |-> [r.list EXCEPT !.count = write_idx], freed |-> r.freed]

RECURSIVE filter_by_line_loop(_, _, _, _, _)
filter_by_line_loop(list, freed, line, read_idx, write_idx) ==
    IF read_idx >= list.count
    THEN [list |-> [list EXCEPT !.count = write_idx], freed |-> freed]
    ELSE IF line_matches_filter(list.departures[read_idx].line.designation, line) # 0
         THEN filter_by_line_loop(retain_departure(list, read_idx, write_idx),
                                  freed, line, read_idx + 1, write_idx + 1)
         ELSE LET r == reject_departure(list, freed, read_idx)
              IN  filter_by_line_loop(r.list, r.freed, line, read_idx + 1, write_idx)

\* filter_departures_by_line with the pass started at the second slot
filter_departures_by_line_from_second(departures, freed, line) ==
    IF departures = NULL \/ line = NULL
    THEN [list |-> departures, freed |-> freed]
    ELSE filter_by_line_loop(departures, freed, line, 1, 1)

\* filter_departures_by_line
filter_departures_by_line(departures, freed, line) ==
    IF departures = NULL \/ line = NULL
    THEN [list |-> departures, freed |-> freed]
    ELSE filter_by_line_loop(departures, freed, line, 0, 0)

\* the string literals of filter_departures_by_transport, byte for byte as
\* they stand in client.c
LIT_metro == <<109, 101, 116, 114, 111>>

LIT_bus == <<98, 117, 115>>

LIT_train == <<116, 114, 97, 105, 110>>

LIT_tram == <<116, 114, 97, 109>>

LIT_tunnelbanan == <<116, 117, 110, 110, 101, 108, 98, 97, 110, 97, 110>>

LIT_buss == <<98, 117, 115, 115>>

\* "n\xec\xb1\x84rtrafiken"
LIT_nartrafiken == <<110, 236, 177, 132, 114, 116, 114, 97, 102, 105, 107, 101, 110>>

\* "pendelt\xec\xb1\x85g"
LIT_pendeltag == <<112, 101, 110, 100, 101, 108, 116, 236, 177, 133, 103>>

LIT_roslagsbanan == <<114, 111, 115, 108, 97, 103, 115, 98, 97, 110, 97, 110>>

\* "sp\xec\xb1\x85rv\xec\xb1\x84g"
LIT_sparvag == <<115, 112, 236, 177, 133, 114, 118, 236, 177, 132, 103>>

\* the if / else-if chain on transport_lower that sets matches
transport_matches(transport_lower, group_lower) ==
    IF transport_lower = LIT_metro
    THEN strstr(group_lower, LIT_tunnelbanan)
    ELSE IF transport_lower = LIT_bus
    THEN strstr(group_lower, LIT_buss) \/ strstr(group_lower, LIT_nartrafiken)
    ELSE IF transport_lower = LIT_train
    THEN strstr(group_lower, LIT_pendeltag) \/ strstr(group_lower, LIT_roslagsbanan)
    ELSE IF transport_lower = LIT_tram
    THEN strstr(group_lower, LIT_sparvag)
    ELSE FALSE

RECURSIVE filter_by_transport_loop(_, _, _, _, _)
filter_by_transport_loop(list, freed, transport_lower, read_idx, write_idx) ==
    IF read_idx >= list.count
    THEN [list |-> [list EXCEPT !.count = write_idx], freed |-> freed]
    ELSE LET group == list.departures[read_idx].line.group_of_lines
             r == reject_departure(list, freed, read_idx)
         IN  IF group # NULL
             THEN IF transport_matches(transport_lower, str_to_lower(Str(group)))
                  THEN filter_by_transport_loop(
                           retain_departure(list, read_idx, write_idx),
                           freed, transport_lower, read_idx + 1, write_idx + 1)
                  ELSE filter_by_transport_loop(r.list, r.freed, transport_lower,
                                                read_idx + 1, write_idx)
             ELSE filter_by_transport_loop(r.list, r.freed, transport_lower,
                                           read_idx + 1, write_idx)

\* filter_departures_by_transport
filter_departures_by_transport(departures, freed, transport_type) ==
    IF departures = NULL \/ transport_type = NULL
    THEN [list |-> departures, freed |-> freed]
    ELSE filter_by_transport_loop(departures, freed,
                                  str_to_lower(Str(transport_type)), 0, 0)

\* the value of matches for one departure: the decimal text of dest_id as a
\* substring for a numeric token, the lower-cased token as a
\* case-insensitive substring otherwise
destination_matches(dest, is_numeric, dest_id, dest_lower) ==
    IF is_numeric
    THEN strstr(dest, u32_to_decimal(dest_id))
    ELSE str_contains_case_insensitive(dest, dest_lower) # 0

RECURSIVE filter_by_destination_loop(_, _, _, _, _, _, _)
filter_by_destination_loop(list, freed, is_numeric, dest_id, dest_lower, read_idx, write_idx) ==
    IF read_idx >= list.count
    THEN [list |-> [list EXCEPT !.count = write_idx], freed |-> freed]
    ELSE IF destination_matches(Str(list.departures[read_idx].destination),
                                is_numeric, dest_id, dest_lower)
         THEN filter_by_destination_loop(
                  retain_departure(list, read_idx, write_idx), freed,
                  is_numeric, dest_id, dest_lower, read_idx + 1, write_idx + 1)
         ELSE LET r == reject_departure(list, freed, read_idx)
              IN  filter_by_destination_loop(r.list, r.freed, is_numeric,
                      dest_id, dest_lower, read_idx + 1, write_idx)

\* filter_departures_by_destination
filter_departures_by_destination(departures, freed, destination) ==
    IF departures = NULL \/ destination = NULL
    THEN [list |-> departures, freed |-> freed]
    ELSE LET conv == strtoul(Str(destination))
             dest_id == to_unsigned_int(conv.value)
             is_numeric == CharAt(Str(destination), conv.endptr) = 0
         IN  filter_by_destination_loop(departures, freed, is_numeric, dest_id,
                 str_to_lower(Str(destination)), 0, 0)

(***************************************************************************)
(* Responses and tokens the specifications draw their inputs from.         *)
(***************************************************************************)
\* "To Airport"
TXT_ToAirport == <<84, 111, 32, 65, 105, 114, 112, 111, 114, 116>>

\* "To 9001 Central"
TXT_To9001Central == <<84, 111, 32, 57, 48, 48, 49, 32, 67, 101, 110, 116, 114, 97, 108>>

\* "to the AIRPORT bus stop"
TXT_toTheAirportBusStop ==
    <<116, 111, 32, 116, 104, 101, 32, 65, 73, 82, 80, 79, 82, 84, 32,
      98, 117, 115, 32, 115, 116, 111, 112>>

\* "Gate 7 Linje -5"
TXT_Gate7LinjeMinus5 == <<71, 97, 116, 101, 32, 55, 32, 76, 105, 110, 106, 101, 32, 45, 53>>

\* "2025-01-01T10:05:00"
TXT_Expected ==
    <<50, 48, 50, 53, 45, 48, 49, 45, 48, 49, 84, 49, 48, 58, 48, 53, 58, 48, 48>>

\* "14", "28", "28X", "28x", "280"
TXT_14 == <<49, 52>>

TXT_28 == <<50, 56>>

TXT_28X == <<50, 56, 88>>

TXT_28x == <<50, 56, 120>>

TXT_280 == <<50, 56, 48>>

\* "Tunnelbanans blå linje" in UTF-8
TXT_TunnelbanansBlaLinje ==
    <<84, 117, 110, 110, 101, 108, 98, 97, 110, 97, 110, 115, 32, 98, 108,
      195, 165, 32, 108, 105, 110, 106, 101>>

\* "Blåbuss" in UTF-8
TXT_Blabuss == <<66, 108, 195, 165, 98, 117, 115, 115>>

\* "Pendeltåg" in UTF-8
TXT_Pendeltag == <<80, 101, 110, 100, 101, 108, 116, 195, 165, 103>>

\* "SPÅRVÄG CITY" in UTF-8
TXT_SPARVAG_CITY == <<83, 80, 195, 133, 82, 86, 195, 132, 71, 32, 67, 73, 84, 89>>

\* "ROSLAGSBANAN"
TXT_ROSLAGSBANAN == <<82, 79, 83, 76, 65, 71, 83, 66, 65, 78, 65, 78>>

\* "ferry", "airport", "9001", "007", "-5", "4294967297"
TXT_ferry == <<102, 101, 114, 114, 121>>

TXT_airport == <<97, 105, 114, 112, 111, 114, 116>>

TXT_9001 == <<57, 48, 48, 49>>

TXT_007 == <<48, 48, 55>>

TXT_Minus5 == <<45, 53>>

TXT_4294967297 == <<52, 50, 57, 52, 57, 54, 55, 50, 57, 55>>

JLine(desig, group) ==
    [type |-> "object", designation |-> desig, group_of_lines |-> group]

JDeparture(destination, expected, line) ==
    [type |-> "object", destination |-> destination, expected |-> expected,
     line |-> line]

JResponse(elems) ==
    [type |-> "object", departures |-> [type |-> "array", elems |-> elems]]

RECURSIVE SeqsUpTo(_, _)
SeqsUpTo(S, n) ==
    IF n = 0 THEN {<<>>}
    ELSE LET shorter == SeqsUpTo(S, n - 1)
         IN  shorter \cup {Append(q, e) : q \in shorter, e \in S}

\* five complete records and one without group_of_lines
FilterElements ==
    { JDeparture(JString(TXT_ToAirport), JString(TXT_Expected),
                 JLine(JString(TXT_14), JString(TXT_TunnelbanansBlaLinje))),
      JDeparture(JString(TXT_To9001Central), JString(TXT_Expected),
                 JLine(JString(TXT_28X), JString(TXT_Blabuss))),
      JDeparture(JString(TXT_toTheAirportBusStop), JString(TXT_Expected),
                 JLine(JString(TXT_14), JString(TXT_Pendeltag))),
      JDeparture(JString(TXT_Gate7LinjeMinus5), JString(TXT_Expected),
                 JLine(JString(TXT_280), JString(TXT_SPARVAG_CITY))),
      JDeparture(JString(TXT_To9001Central), JString(TXT_Expected),
                 JLine(JString(TXT_28), JString(TXT_ROSLAGSBANAN))),
      JDeparture(JString(TXT_ToAirport), JString(TXT_Expected),
                 JLine(JString(TXT_28), JAbsent)) }

FilterPayloads == {JResponse(elems) : elems \in SeqsUpTo(FilterElements, MaxElems)}

LineTokens == {TXT_14, TXT_28, TXT_28x}

TransportTypes == {LIT_metro, LIT_bus, LIT_train, LIT_tram}

TransportTokens == TransportTypes \cup {TXT_ferry}

DestinationTokens == {TXT_airport, TXT_9001, TXT_007, TXT_Minus5, TXT_4294967297}

\* every combination of present, absent, empty and wrongly typed fields
ParseElements ==
    { JDeparture(d, e, l) :
        d \in {JAbsent, JString(<<>>), JString(TXT_ToAirport)},
        e \in {JInteger, JString(TXT_Expected)},
        l \in {JNull} \cup
              { JLine(g, h) :
                  g \in {JAbsent, JString(TXT_14)},
                  h \in {JAbsent, JNull, JString(<<>>), JString(TXT_Blabuss)} } }
    \cup {JInteger}

\* a text that is not JSON, values without an array field departures, and
\* objects whose departures array holds up to MaxParseElems elements
ParsePayloads ==
    { [type |-> "invalid"],
      [type |-> "array"],
      [type |-> "object", departures |-> JAbsent],
      [type |-> "object", departures |-> JString(TXT_14)] }
    \cup {JResponse(elems) : elems \in SeqsUpTo(ParseElements, MaxParseElems)}

(***************************************************************************)
(* SpecParse and SpecFilter: parse_departures_json on a response, then     *)
(* (SpecFilter) the three filters in any order with any tokens.            *)
(***************************************************************************)
NoOp == [op |-> "none", token |-> NULL, before |-> <<>>]

\* a cli_args_t nothing was stored in yet; the program reads none of it
IndeterminateArgs ==
    [command |-> "indeterminate", query |-> NULL, station |-> NULL, line |-> NULL,
     transport_type |-> NULL, destination |-> NULL, count |-> 0]

MatchIdle ==
    /\ designation = <<>>
    /\ line_filter = <<>>
    /\ match_ret = -1

CallIdle ==
    /\ pc = "idle"
    /\ arg_station = <<>>
    /\ arg_line = NULL
    /\ arg_transport = NULL
    /\ arg_destination = NULL
    /\ station_id = U32_ZERO
    /\ fetches = <<>>
    /\ ret = 1
    /\ result = NULL
    /\ handler_ret = 1
    /\ exit_code = -1

SiteIdle ==
    /\ arg_query = <<>>
    /\ request = [res |-> CURLE_OK, code |-> HTTP_OK, body |-> [type |-> "invalid"]]
    /\ alloc = [at |-> 0, what |-> "none"]
    /\ stops_ret = 1
    /\ slist = NULL

TimeIdle ==
    /\ time_str = <<>>
    /\ output_size = 0
    /\ now_tm = [tm_year |-> 0, tm_mon |-> 0, tm_mday |-> 0, tm_hour |-> 0,
                 tm_min |-> 0, tm_sec |-> 0, tm_isdst |-> 0]
    /\ time_output = <<>>
    /\ time_ret = 1
    /\ wait_ret = -2

ShowIdle ==
    /\ rows = <<>>

MainIdle ==
    /\ argv = <<>>
    /\ args = IndeterminateArgs
    /\ cli_heap = [allocated |-> 0, freed |-> 0]
    /\ client = [created |-> 0, freed |-> 0]
    /\ curl = [init |-> "none", cleanups |-> 0]

ListIdle ==
    /\ payload = [type |-> "invalid"]
    /\ parse_ret = 1
    /\ dlist = NULL
    /\ free_count = <<>>
    /\ normalized = <<>>
    /\ last_op = NoOp

\* the strings of element i of the array, if allocated, are allocation i
InitList(payloads) ==
    /\ payload \in payloads
    /\ parse_ret = 1
    /\ dlist = NULL
    /\ free_count = [blk \in 1..(IF json_is_array(json_object_get(payload, "departures"))
                            THEN Len(payload.departures.elems) ELSE 0) |-> 0]
    /\ normalized = <<>>
    /\ last_op = NoOp

ParseDepartures ==
    /\ parse_ret = 1
    /\ LET parsed == parse_departures_json(payload)
       IN  /\ parse_ret' = parsed.ret
           /\ dlist' = parsed.result
           /\ normalized' = IF parsed.ret = 0 THEN Visible(parsed.result) ELSE <<>>
    /\ UNCHANGED <<payload, free_count, last_op, matchVars, auxVars, callVars>>

ApplyFilter(op, token, filtered) ==
    /\ dlist' = filtered.list
    /\ free_count' = filtered.freed
    /\ last_op' = [op |-> op, token |-> token, before |-> Visible(dlist)]
    /\ UNCHANGED <<payload, parse_ret, normalized, matchVars, auxVars, callVars>>

FilterByLine ==
    /\ parse_ret = 0
    /\ \E token \in LineTokens :
          ApplyFilter("line", Ptr(token),
                      filter_departures_by_line(dlist, free_count, Ptr(token)))

FilterByTransport ==
    /\ parse_ret = 0
    /\ \E token \in TransportTokens :
          ApplyFilter("transport", Ptr(token),
                      filter_departures_by_transport(dlist, free_count, Ptr(token)))

FilterByDestination ==
    /\ parse_ret = 0
    /\ \E token \in DestinationTokens :
          ApplyFilter("destination", Ptr(token),
                      filter_departures_by_destination(dlist, free_count, Ptr(token)))

InitParse ==
    MatchIdle /\ CallIdle /\ SiteIdle /\ TimeIdle /\ ShowIdle /\ MainIdle /\ InitList(ParsePayloads)

NextParse == ParseDepartures

SpecParse == InitParse /\ [][NextParse]_vars

InitFilter ==
    MatchIdle /\ CallIdle /\ SiteIdle /\ TimeIdle /\ ShowIdle /\ MainIdle /\ InitList(FilterPayloads)

NextFilter ==
    \/ ParseDepartures
    \/ FilterByLine
    \/ FilterByTransport
    \/ FilterByDestination

SpecFilter == InitFilter /\ [][NextFilter]_vars

(***************************************************************************)
(* client.c: parse_departure_time and calculate_wait_minutes, with the     *)
(* strptime, mktime, difftime and snprintf they call.  A struct tm is a    *)
(* record of its fields; memset leaves tm_isdst at 0 and strptime does not *)
(* set it for this format.                                                 *)
(***************************************************************************)
RECURSIVE skip_blanks(_, _)
skip_blanks(s, i) ==
    IF CharAt(s, i) = 32 THEN skip_blanks(s, i + 1) ELSE i

\* strptime's reading of a number: blanks are skipped, a digit must
\* follow, at most n digits are read while ten times the value does not
\* exceed to, and the value must lie in from..to
RECURSIVE get_number_digits(_, _, _, _, _)
get_number_digits(s, i, val, to, n) ==
    IF n > 0 /\ val * 10 <= to /\ isdigit(CharAt(s, i))
    THEN get_number_digits(s, i + 1, val * 10 + (CharAt(s, i) - 48), to, n - 1)
    ELSE [val |-> val, next |-> i]

get_number(s, i, from, to, n) ==
    LET start == skip_blanks(s, i)
    IN  IF ~isdigit(CharAt(s, start)) THEN [ok |-> FALSE, val |-> 0, next |-> start]
        ELSE LET read == get_number_digits(s, start + 1, CharAt(s, start) - 48,
                                           to, n - 1)
             IN  [ok |-> read.val >= from /\ read.val <= to,
                  val |-> read.val, next |-> read.next]

\* a character of the format that is no conversion must be the next one
match_char(s, i, c) == CharAt(s, i) = c

ZERO_TM ==
    [tm_year |-> 0, tm_mon |-> 0, tm_mday |-> 0, tm_hour |-> 0, tm_min |-> 0,
     tm_sec |-> 0, tm_isdst |-> 0]

\* strptime(s, "%Y-%m-%dT%H:%M:%S", &tm) on a zeroed tm: ok is FALSE for a
\* NULL result; what follows the seconds in s is not looked at
strptime(s) ==
    LET year == get_number(s, 1, 0, 9999, 4)
        mon  == get_number(s, year.next + 1, 1, 12, 2)
        mday == get_number(s, mon.next + 1, 1, 31, 2)
        hour == get_number(s, mday.next + 1, 0, 23, 2)
        min  == get_number(s, hour.next + 1, 0, 59, 2)
        sec  == get_number(s, min.next + 1, 0, 61, 2)
    IN  IF /\ year.ok /\ match_char(s, year.next, 45)
           /\ mon.ok  /\ match_char(s, mon.next, 45)
           /\ mday.ok /\ match_char(s, mday.next, 84)
           /\ hour.ok /\ match_char(s, hour.next, 58)
           /\ min.ok  /\ match_char(s, min.next, 58)
           /\ sec.ok
        THEN [ok |-> TRUE,
              tm |-> [tm_year |-> year.val - 1900, tm_mon |-> mon.val - 1,
                      tm_mday |-> mday.val, tm_hour |-> hour.val,
                      tm_min |-> min.val, tm_sec |-> sec.val, tm_isdst |-> 0]]
        ELSE [ok |-> FALSE, tm |-> ZERO_TM]

\* snprintf(time_output, output_size, "%02d:%02d", tm_hour, tm_min) for
\* values of two digits and a buffer of at least 6 bytes
format_hh_mm(hour, min) ==
    <<48 + (hour \div 10), 48 + (hour % 10), 58, 48 + (min \div 10), 48 + (min % 10)>>

\* parse_departure_time(time_str, time_output, output_size)
parse_departure_time(str, output, size) ==
    IF str = NULL \/ output = NULL \/ size < 6 THEN [ret |-> -1, output |-> output]
    ELSE LET parsed == strptime(Str(str))
         IN  IF ~parsed.ok THEN [ret |-> -1, output |-> output]
             ELSE [ret |-> 0,
                   output |-> Ptr(format_hh_mm(parsed.tm.tm_hour, parsed.tm.tm_min))]

\* days from 1970-01-01 to the civil date y-m-d (m in 1..12; a day past the
\* end of the month counts on into the next, as mktime normalizes it)
days_from_civil(y, m, d) ==
    LET yy  == IF m <= 2 THEN y - 1 ELSE y
        era == yy \div 400
        yoe == yy - era * 400
        doy == (153 * (IF m > 2 THEN m - 3 ELSE m + 9) + 2) \div 5 + d - 1
        doe == yoe * 365 + yoe \div 4 - yoe \div 100 + doy
    IN  era * 146097 + doe - 719468

\* mktime(&tm): the fields are read as local time, as standard time when
\* tm_isdst is 0 and as daylight-saving time (one hour ahead) when it is
\* positive; seconds
\* are counted from 1970-01-01T00:00:00 local standard time (the zone's
\* offset from UTC is the same in both operands of difftime)
mktime(tm) ==
    days_from_civil(tm.tm_year + 1900, tm.tm_mon + 1, tm.tm_mday) * 86400
    + tm.tm_hour * 3600 + tm.tm_min * 60 + tm.tm_sec
    - (IF tm.tm_isdst > 0 THEN 3600 ELSE 0)

\* (int)(diff_seconds / 60.0): the fraction is dropped, towards zero
seconds_to_minutes(diff_seconds) ==
    IF diff_seconds >= 0 THEN diff_seconds \div 60
    ELSE 0 - ((0 - diff_seconds) \div 60)

\* calculate_wait_minutes(time_str); current_tm is *localtime(&now), whose
\* tm_isdst tells whether daylight-saving time is in effect
calculate_wait_minutes(str, current_tm) ==
    IF str = NULL THEN -1
    ELSE LET parsed == strptime(Str(str))
         IN  IF ~parsed.ok THEN -1
             ELSE LET departure_time == mktime(parsed.tm)
                      current_time   == mktime(current_tm)
                      diff_minutes   == seconds_to_minutes(departure_time - current_time)
                  IN  IF diff_minutes > 0 THEN diff_minutes ELSE 0

(***************************************************************************)
(* SpecTime: both functions on a timestamp, at a current local time, with  *)
(* daylight-saving time in effect or not.                                  *)
(***************************************************************************)
\* "2025-09-09T13:32:00"
TS_133200 == <<50, 48, 50, 53, 45, 48, 57, 45, 48, 57, 84, 49, 51, 58, 51, 50, 58, 48, 48>>

\* "2025-09-09T13:33:30"
TS_133330 == <<50, 48, 50, 53, 45, 48, 57, 45, 48, 57, 84, 49, 51, 58, 51, 51, 58, 51, 48>>

\* "2025-09-09T13:34:29"
TS_133429 == <<50, 48, 50, 53, 45, 48, 57, 45, 48, 57, 84, 49, 51, 58, 51, 52, 58, 50, 57>>

\* "2025-09-09T13:34:30"
TS_133430 == <<50, 48, 50, 53, 45, 48, 57, 45, 48, 57, 84, 49, 51, 58, 51, 52, 58, 51, 48>>

\* "2025-09-09T13:43:30"
TS_134330 == <<50, 48, 50, 53, 45, 48, 57, 45, 48, 57, 84, 49, 51, 58, 52, 51, 58, 51, 48>>

\* "2025-09-09T12:00:00"
TS_120000 == <<50, 48, 50, 53, 45, 48, 57, 45, 48, 57, 84, 49, 50, 58, 48, 48, 58, 48, 48>>

\* "2026-01-01T00:04:30"
TS_NewYear == <<50, 48, 50, 54, 45, 48, 49, 45, 48, 49, 84, 48, 48, 58, 48, 52, 58, 51, 48>>

\* "2025-09-09T13:43:30Z"
TS_Zulu == <<50, 48, 50, 53, 45, 48, 57, 45, 48, 57, 84, 49, 51, 58, 52, 51, 58, 51, 48, 90>>

\* "2025-09-09T13:43:30.500"
TS_Fraction ==
    <<50, 48, 50, 53, 45, 48, 57, 45, 48, 57, 84,
      49, 51, 58, 52, 51, 58, 51, 48, 46, 53, 48, 48>>

\* "2025-9-9T7:5:3"
TS_Unpadded == <<50, 48, 50, 53, 45, 57, 45, 57, 84, 55, 58, 53, 58, 51>>

\* " 2025-09-09T13:43:30"
TS_LeadingSpace ==
    <<32, 50, 48, 50, 53, 45, 48, 57, 45, 48,
      57, 84, 49, 51, 58, 52, 51, 58, 51, 48>>

\* "2025-09-09T13:43"
TS_NoSeconds == <<50, 48, 50, 53, 45, 48, 57, 45, 48, 57, 84, 49, 51, 58, 52, 51>>

\* "2025-09-09 13:43:30"
TS_SpaceForT == <<50, 48, 50, 53, 45, 48, 57, 45, 48, 57, 32, 49, 51, 58, 52, 51, 58, 51, 48>>

\* "2025-13-09T13:43:30"
TS_Month13 == <<50, 48, 50, 53, 45, 49, 51, 45, 48, 57, 84, 49, 51, 58, 52, 51, 58, 51, 48>>

\* "2025-09-09T24:00:00"
TS_Hour24 == <<50, 48, 50, 53, 45, 48, 57, 45, 48, 57, 84, 50, 52, 58, 48, 48, 58, 48, 48>>

\* "13:43:30"
TS_TimeOnly == <<49, 51, 58, 52, 51, 58, 51, 48>>

TimeStrings ==
    { <<>>,
      TS_133200, TS_133330, TS_133429, TS_133430,
      TS_134330, TS_120000, TS_NewYear, TS_Zulu,
      TS_Fraction, TS_Unpadded, TS_LeadingSpace, TS_NoSeconds,
      TS_SpaceForT, TS_Month13, TS_Hour24, TS_TimeOnly }

\* 2025-09-09T13:33:30 and 2025-12-31T23:59:30, each as standard time and
\* as daylight-saving time
CurrentTimes ==
    { [tm_year |-> 125, tm_mon |-> date[1], tm_mday |-> date[2],
       tm_hour |-> date[3], tm_min |-> date[4], tm_sec |-> 30, tm_isdst |-> dst] :
        date \in {<<8, 9, 13, 33>>, <<11, 31, 23, 59>>}, dst \in {0, 1} }

\* "??:??", what handle_departures puts into the buffer before the call
TXT_Placeholder == <<63, 63, 58, 63, 63>>

InitTime ==
    /\ MatchIdle
    /\ ListIdle
    /\ CallIdle
    /\ SiteIdle
    /\ ShowIdle
    /\ MainIdle
    /\ time_str \in TimeStrings
    /\ output_size \in {5, 6, 16}
    /\ now_tm \in CurrentTimes
    /\ time_output = Ptr(TXT_Placeholder)
    /\ time_ret = 1
    /\ wait_ret = -2

CallParseDepartureTime ==
    /\ time_ret = 1
    /\ LET parsed == parse_departure_time(Ptr(time_str), time_output, output_size)
       IN  /\ time_ret' = parsed.ret
           /\ time_output' = parsed.output
    /\ UNCHANGED <<matchVars, listVars, callVars, siteVars, showVars, mainVars, time_str, output_size,
                   now_tm, wait_ret>>

CallCalculateWaitMinutes ==
    /\ wait_ret = -2
    /\ wait_ret' = calculate_wait_minutes(Ptr(time_str), now_tm)
    /\ UNCHANGED <<matchVars, listVars, callVars, siteVars, showVars, mainVars, time_str, output_size,
                   now_tm, time_output, time_ret>>

NextTime ==
    \/ CallParseDepartureTime
    \/ CallCalculateWaitMinutes

SpecTime == InitTime /\ [][NextTime]_vars

(***************************************************************************)
(* cli.c: parse_args and validate_args; types.c: free_cli_args.  argv[0]   *)
(* is left out: argv[1] of the program is the first element of argv here.  *)
(* cli_heap counts the strings parse_args obtained from strdup_safe and    *)
(* the strings handed to free.                                             *)
(***************************************************************************)
\* the words of the command line
LIT_search == <<115, 101, 97, 114, 99, 104>>

LIT_departures == <<100, 101, 112, 97, 114, 116, 117, 114, 101, 115>>

LIT_help == <<104, 101, 108, 112>>

LIT_dash_dash_help == <<45, 45, 104, 101, 108, 112>>

LIT_dash_h == <<45, 104>>

LIT_line == <<108, 105, 110, 101>>

LIT_transport_type == <<116, 114, 97, 110, 115, 112, 111, 114, 116, 45, 116, 121, 112, 101>>

LIT_count == <<99, 111, 117, 110, 116>>

LIT_destination == <<100, 101, 115, 116, 105, 110, 97, 116, 105, 111, 110>>

\* init_cli_args
init_cli_args ==
    [command |-> "CMD_HELP", query |-> NULL, station |-> NULL, line |-> NULL,
     transport_type |-> NULL, destination |-> NULL, count |-> 10]

\* atoi on a short string: blanks, an optional sign, then digits
RECURSIVE atoi_digits(_, _, _)
atoi_digits(nptr, i, acc) ==
    IF isdigit(CharAt(nptr, i))
    THEN atoi_digits(nptr, i + 1, acc * 10 + (CharAt(nptr, i) - 48))
    ELSE acc

atoi(nptr) ==
    LET start == skip_space(nptr, 1)
    IN  IF CharAt(nptr, start) = 45 THEN 0 - atoi_digits(nptr, start + 1, 0)
        ELSE IF CharAt(nptr, start) = 43 THEN atoi_digits(nptr, start + 1, 0)
        ELSE atoi_digits(nptr, start, 0)

IsPrefix(p, str) == Len(p) <= Len(str) /\ SubSeq(str, 1, Len(p)) = p

\* getopt_long(argc, argv, "l:t:c:d:h", long_options, NULL) on the word at
\* position i: opt is the option character (63, '?', for an unknown option
\* or a missing argument; 0 for a word that is no option, which getopt
\* passes over; -1 at "--" or at the end), optarg its argument, next the
\* position of the next word.  A long option may be shortened to any of its
\* prefixes (the five names start with different letters).  The form
\* --name=value is not modelled.
getopt_long(words, i) ==
    LET word == words[i]
        short == CharAt(word, 2)
        name == SubSeq(word, 3, Len(word))
        long == IF name = <<>> THEN 0
                ELSE IF IsPrefix(name, LIT_line) THEN 108
                ELSE IF IsPrefix(name, LIT_transport_type) THEN 116
                ELSE IF IsPrefix(name, LIT_count) THEN 99
                ELSE IF IsPrefix(name, LIT_destination) THEN 100
                ELSE IF IsPrefix(name, LIT_help) THEN 104
                ELSE 63
        is_long == CharAt(word, 1) = 45 /\ short = 45
        opt == IF is_long THEN long ELSE short
        attached == IF is_long THEN <<>> ELSE SubSeq(word, 3, Len(word))
    IN  IF i > Len(words) THEN [opt |-> -1, optarg |-> NULL, next |-> i]
        ELSE IF CharAt(word, 1) # 45 \/ Len(word) = 1
        THEN [opt |-> 0, optarg |-> NULL, next |-> i + 1]
        ELSE IF is_long /\ Len(word) = 2
        THEN [opt |-> -1, optarg |-> NULL, next |-> i + 1]
        ELSE IF opt = 104 THEN [opt |-> 104, optarg |-> NULL, next |-> i + 1]
        ELSE IF opt \notin {108, 116, 99, 100}
        THEN [opt |-> 63, optarg |-> NULL, next |-> i + 1]
        ELSE IF attached # <<>>
        THEN [opt |-> opt, optarg |-> Ptr(attached), next |-> i + 1]
        ELSE IF i + 1 > Len(words)
        THEN [opt |-> 63, optarg |-> NULL, next |-> i + 1]
        ELSE [opt |-> opt, optarg |-> Ptr(words[i + 1]), next |-> i + 2]

\* the while loop of parse_args over the options of the departures command
\* (strdup_safe succeeds here)
RECURSIVE parse_options(_, _, _, _)
parse_options(words, i, parsed, allocated) ==
    LET got == getopt_long(words, i)
    IN  IF got.opt = -1 THEN [ret |-> 0, args |-> parsed, allocated |-> allocated]
        ELSE IF got.opt = 0 THEN parse_options(words, got.next, parsed, allocated)
        ELSE IF got.opt = 108
        THEN parse_options(words, got.next,
                           [parsed EXCEPT !.line = strdup_safe(got.optarg)],
                           allocated + 1)
        ELSE IF got.opt = 116
        THEN parse_options(words, got.next,
                           [parsed EXCEPT !.transport_type = strdup_safe(got.optarg)],
                           allocated + 1)
        ELSE IF got.opt = 99
        THEN LET counted == [parsed EXCEPT !.count = atoi(Str(got.optarg))]
             IN  IF counted.count <= 0
                 THEN [ret |-> -1, args |-> counted, allocated |-> allocated]
                 ELSE parse_options(words, got.next, counted, allocated)
        ELSE IF got.opt = 100
        THEN parse_options(words, got.next,
                           [parsed EXCEPT !.destination = strdup_safe(got.optarg)],
                           allocated + 1)
        ELSE IF got.opt = 104 THEN [ret |-> 1, args |-> parsed, allocated |-> allocated]
        ELSE [ret |-> -1, args |-> parsed, allocated |-> allocated]

\* parse_args(argc, argv, &args): ret is -1 for an error, 0 for success, 1
\* when help was printed; allocated counts the strings it allocated
parse_args(words, before) ==
    IF Len(words) + 1 < 2 THEN [ret |-> -1, args |-> before, allocated |-> 0]
    ELSE IF words[1] = LIT_search
    THEN IF Len(words) + 1 < 3
         THEN [ret |-> -1, args |-> [init_cli_args EXCEPT !.command = "CMD_SEARCH"],
               allocated |-> 0]
         ELSE [ret |-> 0,
               args |-> [init_cli_args EXCEPT !.command = "CMD_SEARCH",
                                              !.query = strdup_safe(Ptr(words[2]))],
               allocated |-> 1]
    ELSE IF words[1] = LIT_departures
    THEN IF Len(words) + 1 < 3
         THEN [ret |-> -1, args |-> [init_cli_args EXCEPT !.command = "CMD_DEPARTURES"],
               allocated |-> 0]
         ELSE parse_options(words, 3,
                            [init_cli_args EXCEPT !.command = "CMD_DEPARTURES",
                                                  !.station = strdup_safe(Ptr(words[2]))],
                            1)
    ELSE IF words[1] \in {LIT_help, LIT_dash_dash_help, LIT_dash_h}
    THEN [ret |-> 1, args |-> init_cli_args, allocated |-> 0]
    ELSE [ret |-> -1, args |-> init_cli_args, allocated |-> 0]

\* const char *valid_types[] = {"metro", "bus", "train", "tram"}
valid_types == <<LIT_metro, LIT_bus, LIT_train, LIT_tram>>

\* validate_args without the test of the transport type
validate_args_any_transport(a) ==
    IF a.command = "CMD_SEARCH" THEN (IF a.query = NULL THEN -1 ELSE 0)
    ELSE IF a.command = "CMD_DEPARTURES"
    THEN IF a.station = NULL \/ Len(Str(a.station)) = 0 THEN -1
         ELSE IF a.count <= 0 \/ a.count > 100 THEN -1
         ELSE 0
    ELSE IF a.command = "CMD_HELP" THEN 0
    ELSE -1

\* validate_args(&args): 0 or -1
validate_args(a) ==
    IF a.command = "CMD_SEARCH" THEN (IF a.query = NULL THEN -1 ELSE 0)
    ELSE IF a.command = "CMD_DEPARTURES"
    THEN IF a.station = NULL \/ Len(Str(a.station)) = 0 THEN -1
         ELSE IF a.count <= 0 \/ a.count > 100 THEN -1
         ELSE IF a.transport_type # NULL
                 /\ \A i \in 1..Len(valid_types) : Str(a.transport_type) # valid_types[i]
         THEN -1
         ELSE 0
    ELSE IF a.command = "CMD_HELP" THEN 0
    ELSE -1

\* free_cli_args(&args): the five strings are freed (free(NULL) does
\* nothing) and the pointers cleared
free_cli_args(a, heap) ==
    [args |-> [a EXCEPT !.query = NULL, !.station = NULL, !.line = NULL,
                        !.transport_type = NULL, !.destination = NULL],
     heap |-> [heap EXCEPT !.freed =
                  @ + Cardinality({f \in {"query", "station", "line", "transport_type",
                                          "destination"} : a[f] # NULL})]]

(***************************************************************************)
(* Spec: one call of sl_get_departures, step by step: the station is       *)
(* resolved, the departures are requested and parsed, the supplied filters *)
(* are applied, the list is handed to the caller.                          *)
(***************************************************************************)
\* "Now", "?", "Unknown"
TXT_Now == <<78, 111, 119>>

TXT_QuestionMark == <<63>>

TXT_Unknown == <<85, 110, 107, 110, 111, 119, 110>>

\* the digits of "%d" for a positive int
RECURSIVE int_to_decimal(_)
int_to_decimal(n) ==
    IF n < 10 THEN <<48 + n>> ELSE int_to_decimal(n \div 10) \o <<48 + (n % 10)>>

\* main.c, handle_departures: wait_str for the value of calculate_wait_minutes
wait_str(wait_mins) ==
    IF wait_mins = 0 THEN TXT_Now
    ELSE IF wait_mins < 0 THEN TXT_QuestionMark
    ELSE int_to_decimal(wait_mins) \o <<109>>

\* the body of the loop over the departures: the arguments of the printf
print_row(dep, now) ==
    LET actual_time == parse_departure_time(dep.expected, Ptr(TXT_Placeholder), 16).output
        wait_mins == calculate_wait_minutes(dep.expected, now)
    IN  [wait |-> wait_str(wait_mins),
         time |-> Str(actual_time),
         line |-> Str(dep.line.designation),
         destination |-> Str(dep.destination),
         type |-> IF dep.line.group_of_lines # NULL
                  THEN Str(dep.line.group_of_lines) ELSE TXT_Unknown]

\* the loop with a departure whose timestamp does not parse left out
RECURSIVE print_rows_skip_unparsed(_, _, _, _)
print_rows_skip_unparsed(departures, max_count, now, i) ==
    IF i >= max_count THEN <<>>
    ELSE IF ~strptime(Str(departures.departures[i].expected)).ok
    THEN print_rows_skip_unparsed(departures, max_count, now, i + 1)
    ELSE <<print_row(departures.departures[i], now)>>
         \o print_rows_skip_unparsed(departures, max_count, now, i + 1)

\* for (size_t i = 0; i < max_count; i++)
RECURSIVE print_rows(_, _, _, _)
print_rows(departures, max_count, now, i) ==
    IF i >= max_count THEN <<>>
    ELSE <<print_row(departures.departures[i], now)>>
         \o print_rows(departures, max_count, now, i + 1)

\* max_count = (size_t)count, lowered to departures->count
size_t_min(count, n) == IF count > n THEN n ELSE count

\* the local time while the table is printed: 2025-09-09T13:33:30, as
\* standard time and as daylight-saving time
Clock == {t \in CurrentTimes : t.tm_mon = 8}

\* "9001", "centralen", "solna"
TXT_centralen == <<99, 101, 110, 116, 114, 97, 108, 101, 110>>

TXT_solna == <<115, 111, 108, 110, 97>>

\* "T-Centralen", "Centralen Norra", "Odenplan"
TXT_TCentralen == <<84, 45, 67, 101, 110, 116, 114, 97, 108, 101, 110>>

TXT_CentralenNorra ==
    <<67, 101, 110, 116, 114, 97, 108, 101, 110, 32, 78, 111, 114, 114, 97>>

TXT_Odenplan == <<79, 100, 101, 110, 112, 108, 97, 110>>

JSite(name, id) == [type |-> "object", name |-> name, id |-> id]

JArray(elems) == [type |-> "array", elems |-> elems]

\* "9001", "4294967297", "-5", "centralen", "solna"
Stations == {TXT_9001, TXT_4294967297, TXT_Minus5, TXT_centralen, TXT_solna}

\* what the site-list request may bring: a transport failure, a status
\* other than 200, a list with two stations that contain "centralen", a
\* list in which the first of them has the id 0
SiteOutcomes ==
    { [res |-> 7, code |-> 0, body |-> [type |-> "invalid"]],
      [res |-> CURLE_OK, code |-> 500, body |-> [type |-> "invalid"]],
      [res |-> CURLE_OK, code |-> HTTP_OK,
       body |-> JArray(<<JSite(JString(TXT_Odenplan), JInt(9117)),
                         JSite(JString(TXT_TCentralen), JInt(9001)),
                         JSite(JString(TXT_CentralenNorra), JInt(9002))>>)],
      [res |-> CURLE_OK, code |-> HTTP_OK,
       body |-> JArray(<<JSite(JString(TXT_TCentralen), JInt(0)),
                         JSite(JString(TXT_CentralenNorra), JInt(9002))>>)] }

\* three complete records, the second with a timestamp that lacks its
\* seconds
FetchedElements ==
    { JDeparture(JString(TXT_ToAirport), JString(TS_134330),
                 JLine(JString(TXT_14), JString(TXT_TunnelbanansBlaLinje))),
      JDeparture(JString(TXT_To9001Central), JString(TS_NoSeconds),
                 JLine(JString(TXT_28X), JString(TXT_Blabuss))),
      JDeparture(JString(TXT_To9001Central), JString(TS_133200),
                 JLine(JString(TXT_28), JString(TXT_ROSLAGSBANAN))) }

\* what the departures request may bring
DepartureOutcomes ==
    { [res |-> 7, code |-> 0, body |-> [type |-> "invalid"]],
      [res |-> CURLE_OK, code |-> 404, body |-> [type |-> "invalid"]],
      [res |-> CURLE_OK, code |-> HTTP_OK, body |-> [type |-> "object", departures |-> JNull]] }
    \cup { [res |-> CURLE_OK, code |-> HTTP_OK, body |-> JResponse(elems)] :
             elems \in SeqsUpTo(FetchedElements, MaxFetched) }

OptionalToken(tokens) == {NULL} \cup {Ptr(t) : t \in tokens}

\* "-l", "-t", "-d", "-c"
LIT_dash_l == <<45, 108>>

LIT_dash_t == <<45, 116>>

LIT_dash_d == <<45, 100>>

LIT_dash_c == <<45, 99>>

\* counts given with -c; validate_args lets 1..100 through
Counts == {1, 2}

\* the command line "departures <station> [-l ..] [-t ..] [-d ..] -c <count>"
CommandLine(station, line, transport, destination, count) ==
    <<LIT_departures, station>>
    \o (IF line = NULL THEN <<>> ELSE <<LIT_dash_l, Str(line)>>)
    \o (IF transport = NULL THEN <<>> ELSE <<LIT_dash_t, Str(transport)>>)
    \o (IF destination = NULL THEN <<>> ELSE <<LIT_dash_d, Str(destination)>>)
    \o <<LIT_dash_c, int_to_decimal(count)>>

\* main.c, main: handle_departures(client, args.station, args.line,
\* args.transport_type, args.count, args.destination) is entered and calls
\* sl_get_departures with these arguments
EnterHandleDepartures(a) ==
    /\ pc' = "resolve"
    /\ arg_station' = Str(a.station)
    /\ arg_line' = a.line
    /\ arg_transport' = a.transport_type
    /\ arg_destination' = a.destination

\* main has parsed and validated a departures command line, created the
\* client and entered handle_departures
Init ==
    /\ MatchIdle
    /\ ListIdle
    /\ SiteIdle
    /\ TimeIdle
    /\ ShowIdle
    /\ \E station \in Stations,
          line \in OptionalToken({TXT_28, TXT_28x}),
          transport \in OptionalToken({LIT_bus, LIT_train}),
          destination \in OptionalToken({TXT_airport, TXT_9001}),
          count \in Counts :
            argv = CommandLine(station, line, transport, destination, count)
    /\ LET parsed == parse_args(argv, IndeterminateArgs)
       IN  /\ args = parsed.args
           /\ cli_heap = [allocated |-> parsed.allocated, freed |-> 0]
    /\ curl = [init |-> "ok", cleanups |-> 0]
    /\ client = [created |-> 1, freed |-> 0]
    /\ pc = "resolve"
    /\ arg_station = Str(args.station)
    /\ arg_line = args.line
    /\ arg_transport = args.transport_type
    /\ arg_destination = args.destination
    /\ station_id = U32_ZERO
    /\ fetches = <<>>
    /\ ret = 1
    /\ result = NULL
    /\ handler_ret = 1
    /\ exit_code = -1

\* station_id = strtoul(station, &endptr, 10) with *endptr == '\0'
ResolveNumeric ==
    /\ pc = "resolve"
    /\ LET conv == strtoul(arg_station)
       IN  /\ CharAt(arg_station, conv.endptr) = 0
           /\ station_id' = to_unsigned_int(conv.value)
    /\ pc' = "fetch"
    /\ UNCHANGED <<matchVars, auxVars, exitVars, listVars, argVars, fetches, ret, result>>

\* the name lookup without the error return for a station_id of 0
ResolveByName_no_zero_check ==
    /\ pc = "resolve"
    /\ CharAt(arg_station, strtoul(arg_station).endptr) # 0
    /\ \E outcome \in SiteOutcomes :
          /\ fetches' = Append(fetches,
                            [kind |-> "sites", id |-> <<>>,
                             ok |-> outcome.res = CURLE_OK
                                    /\ outcome.code = HTTP_OK])
          /\ request' = outcome
          /\ station_id' = sl_find_station_id(arg_station, outcome)
          /\ pc' = "fetch"
    /\ UNCHANGED <<matchVars, timeVars, showVars, mainVars, arg_query, alloc, stops_ret, slist, exitVars,
                   listVars, argVars, ret, result>>

\* *endptr != '\0': sl_find_station_id, and the error return when it gives 0
\* (request keeps the outcome of the site-list request)
ResolveByName ==
    /\ pc = "resolve"
    /\ CharAt(arg_station, strtoul(arg_station).endptr) # 0
    /\ \E outcome \in SiteOutcomes :
          LET found == sl_find_station_id(arg_station, outcome)
          IN  /\ fetches' = Append(fetches,
                                [kind |-> "sites", id |-> <<>>,
                                 ok |-> outcome.res = CURLE_OK
                                        /\ outcome.code = HTTP_OK])
              /\ request' = outcome
              /\ station_id' = found
              /\ IF found = U32_ZERO
                 THEN pc' = "returned" /\ ret' = -1
                 ELSE pc' = "fetch" /\ UNCHANGED ret
    /\ UNCHANGED <<matchVars, timeVars, showVars, mainVars, arg_query, alloc, stops_ret, slist, exitVars,
                   listVars, argVars, result>>

\* the departures request with the result code and the status not looked at
FetchDepartures_ignores_status ==
    /\ pc = "fetch"
    /\ \E outcome \in DepartureOutcomes :
          /\ fetches' = Append(fetches,
                            [kind |-> "departures", id |-> u32_to_decimal(station_id),
                             ok |-> outcome.res = CURLE_OK
                                    /\ outcome.code = HTTP_OK])
          /\ pc' = "parse" /\ payload' = outcome.body /\ UNCHANGED ret
    /\ UNCHANGED <<matchVars, auxVars, exitVars, parse_ret, dlist, free_count, normalized, last_op,
                   argVars, station_id, result>>

\* the departures request for station_id, its result code and its status
FetchDepartures ==
    /\ pc = "fetch"
    /\ \E outcome \in DepartureOutcomes :
          /\ fetches' = Append(fetches,
                            [kind |-> "departures", id |-> u32_to_decimal(station_id),
                             ok |-> outcome.res = CURLE_OK
                                    /\ outcome.code = HTTP_OK])
          /\ IF outcome.res # CURLE_OK \/ outcome.code # HTTP_OK
             THEN pc' = "returned" /\ ret' = -1 /\ UNCHANGED payload
             ELSE pc' = "parse" /\ payload' = outcome.body /\ UNCHANGED ret
    /\ UNCHANGED <<matchVars, auxVars, exitVars, parse_ret, dlist, free_count, normalized, last_op,
                   argVars, station_id, result>>

\* parse_departures_json(response.data, &departures) and its error return
ParseResponse ==
    /\ pc = "parse"
    /\ LET parsed == parse_departures_json(payload)
       IN  /\ parse_ret' = parsed.ret
           /\ dlist' = parsed.result
           /\ IF parsed.ret # 0
              THEN /\ pc' = "returned" /\ ret' = -1
                   /\ UNCHANGED <<normalized, free_count>>
              ELSE /\ pc' = "filter_line" /\ UNCHANGED ret
                   /\ normalized' = Visible(parsed.result)
                   /\ free_count' = [blk \in 1..Len(payload.departures.elems) |-> 0]
    /\ UNCHANGED <<matchVars, auxVars, exitVars, payload, last_op, argVars, station_id, fetches, result>>

\* one "if (x_filter) filter_departures_by_x(departures, x_filter);"
FilterStep(op, token, filtered, next) ==
    /\ IF token # NULL
       THEN /\ dlist' = filtered.list
            /\ free_count' = filtered.freed
            /\ last_op' = [op |-> op, token |-> token, before |-> Visible(dlist)]
       ELSE UNCHANGED <<dlist, free_count, last_op>>
    /\ pc' = next
    /\ UNCHANGED <<matchVars, auxVars, exitVars, payload, parse_ret, normalized, argVars, station_id,
                   fetches, ret, result>>

StepLineFilter ==
    /\ pc = "filter_line"
    /\ FilterStep("line", arg_line,
                  filter_departures_by_line(dlist, free_count, arg_line),
                  "filter_transport")

StepTransportFilter ==
    /\ pc = "filter_transport"
    /\ FilterStep("transport", arg_transport,
                  filter_departures_by_transport(dlist, free_count, arg_transport),
                  "filter_destination")

\* the destination step guarded by transport_filter instead of its own token
StepDestinationFilter_wrong_guard ==
    /\ pc = "filter_destination"
    /\ FilterStep("destination",
                  IF arg_transport # NULL THEN arg_destination ELSE NULL,
                  filter_departures_by_destination(dlist, free_count, arg_destination),
                  "return")

StepDestinationFilter ==
    /\ pc = "filter_destination"
    /\ FilterStep("destination", arg_destination,
                  filter_departures_by_destination(dlist, free_count, arg_destination),
                  "return")

\* *result = departures; return 0;
ReturnDepartures ==
    /\ pc = "return"
    /\ result' = dlist
    /\ ret' = 0
    /\ pc' = "returned"
    /\ UNCHANGED <<matchVars, auxVars, exitVars, listVars, argVars, station_id, fetches>>

\* handle_departures taking an empty list for a failure
HandleDepartures_empty_fails ==
    /\ pc = "returned"
    /\ \E now \in Clock :
         IF ret # 0 \/ result.count = 0
         THEN /\ handler_ret' = -1
              /\ UNCHANGED <<dlist, free_count, result, rows, now_tm>>
         ELSE /\ handler_ret' = 0
              /\ now_tm' = now
              /\ rows' = print_rows(result, size_t_min(args.count, result.count), now, 0)
              /\ free_count' = free_departure_list(result, free_count)
              /\ dlist' = NULL
              /\ result' = NULL
    /\ pc' = "handled"
    /\ UNCHANGED <<matchVars, siteVars, mainVars, time_str, output_size, time_output,
                   time_ret, wait_ret, payload, parse_ret, normalized, last_op,
                   argVars, station_id, fetches, ret, exit_code>>

\* main.c, handle_departures after sl_get_departures has returned: -1 when
\* it failed; otherwise "No departures found" or the title, the header and
\* one printf for each of the first max_count departures, then
\* free_departure_list and 0.  rows holds the arguments of the printf of
\* each table row; now is what localtime(&now) gives while the rows are
\* printed.
HandleDepartures ==
    /\ pc = "returned"
    /\ \E now \in Clock :
         IF ret # 0
         THEN /\ handler_ret' = -1
              /\ UNCHANGED <<dlist, free_count, result, rows, now_tm>>
         ELSE /\ handler_ret' = 0
              /\ IF result.count = 0
                 THEN UNCHANGED <<rows, now_tm>>
                 ELSE /\ now_tm' = now
                      /\ rows' = print_rows(result,
                                            size_t_min(args.count, result.count), now, 0)
              /\ free_count' = free_departure_list(result, free_count)
              /\ dlist' = NULL
              /\ result' = NULL
    /\ pc' = "handled"
    /\ UNCHANGED <<matchVars, siteVars, mainVars, time_str, output_size, time_output,
                   time_ret, wait_ret, payload, parse_ret, normalized, last_op,
                   argVars, station_id, fetches, ret, exit_code>>

EXIT_SUCCESS == 0

EXIT_FAILURE == 1

\* sl_client_free(client)
sl_client_free(c) == [c EXCEPT !.freed = @ + 1]

\* curl_global_cleanup()
curl_global_cleanup(c) == [c EXCEPT !.cleanups = @ + 1]

\* main.c, main: the handler has returned; result is set, the client and
\* the arguments are freed, libcurl is cleaned up, result is returned
MainExit ==
    /\ pc = "handled"
    /\ exit_code' = IF handler_ret # 0 THEN EXIT_FAILURE ELSE EXIT_SUCCESS
    /\ client' = sl_client_free(client)
    /\ args' = free_cli_args(args, cli_heap).args
    /\ cli_heap' = free_cli_args(args, cli_heap).heap
    /\ curl' = curl_global_cleanup(curl)
    /\ pc' = "exited"
    /\ UNCHANGED <<matchVars, siteVars, timeVars, showVars, argv, listVars, argVars,
                   station_id, fetches, ret, result, handler_ret>>

Next ==
    \/ ResolveNumeric
    \/ ResolveByName
    \/ FetchDepartures
    \/ ParseResponse
    \/ StepLineFilter
    \/ StepTransportFilter
    \/ StepDestinationFilter
    \/ ReturnDepartures
    \/ HandleDepartures
    \/ MainExit

Spec == Init /\ [][Next]_vars

(***************************************************************************)
(* SpecSites: parse_sites_json on a decoded site-list response.            *)
(***************************************************************************)
VisibleStops(list) == [i \in 1..list.count |-> list.stops[i - 1]]

\* "Älvsjö", "älvsjö" in UTF-8
TXT_Alvsjo == <<195, 132, 108, 118, 115, 106, 195, 182>>

TXT_alvsjo == <<195, 164, 108, 118, 115, 106, 195, 182>>

\* sites with a string name and an integer id (9117, 0, -1), a site whose
\* name is not a string, sites whose id is absent or a string, and an
\* element that is no object
SiteElements ==
    { JSite(JString(TXT_Odenplan), JInt(9117)),
      JSite(JString(TXT_TCentralen), JInt(0)),
      JSite(JString(<<>>), JInt(-1)),
      JSite(JNull, JInt(9001)),
      JSite(JString(TXT_Alvsjo), JAbsent),
      JSite(JString(TXT_Alvsjo), JString(TXT_9001)),
      JString(TXT_Odenplan) }

\* a text that is not JSON, values that are no array, and arrays of up to
\* MaxSites elements
SitesPayloads ==
    { [type |-> "invalid"],
      [type |-> "object", departures |-> JArray(<<>>)],
      JString(TXT_Odenplan) }
    \cup {JArray(elems) : elems \in SeqsUpTo(SiteElements, MaxSites)}

InitSites ==
    /\ MatchIdle
    /\ ListIdle
    /\ CallIdle
    /\ TimeIdle
    /\ ShowIdle
    /\ MainIdle
    /\ arg_query = <<>>
    /\ request \in { [res |-> CURLE_OK, code |-> HTTP_OK, body |-> body] :
                       body \in SitesPayloads }
    /\ alloc = [at |-> 0, what |-> "none"]
    /\ stops_ret = 1
    /\ slist = NULL

\* parse_sites_json(response.data, &sites)
ParseSites ==
    /\ stops_ret = 1
    /\ LET parsed == parse_sites_json(request.body)
       IN  /\ stops_ret' = parsed.ret
           /\ slist' = parsed.result
    /\ UNCHANGED <<matchVars, listVars, callVars, timeVars, showVars, mainVars, arg_query, request, alloc>>

NextSites == ParseSites

SpecSites == InitSites /\ [][NextSites]_vars

(***************************************************************************)
(* SpecSearch: sl_search_stops on the outcome of its request.  alloc names *)
(* the allocation of the call that fails, if any: create_stop_list, the    *)
(* str_to_lower of the query, or, in iteration at of the filter loop, the  *)
(* str_to_lower of the name or the strdup_safe of add_stop_to_list.        *)
(***************************************************************************)
\* add_stop_to_list when strdup_safe gives NULL: the slot at count is
\* written, count is not incremented, -1 is returned
add_stop_to_list_nomem(list, name, id) ==
    IF list = NULL \/ name = NULL THEN [ret |-> -1, list |-> list]
    ELSE LET grown == add_stop_to_list(list, name, id).list
         IN  [ret |-> -1,
              list |-> [grown EXCEPT !.count = list.count,
                                     !.stops[list.count] = [name |-> NULL, id |-> id]]]

\* for (i = 0; i < all_sites->count; i++): the name is lower-cased, a
\* station whose lower-cased name contains query_lower is added, and the
\* value add_stop_to_list returns is not looked at
RECURSIVE search_loop(_, _, _, _, _)
search_loop(all_sites, filtered_sites, query_lower, mem, i) ==
    IF i >= all_sites.count THEN filtered_sites
    ELSE LET name == all_sites.stops[i].name
             name_lower == IF mem.what = "name_lower" /\ mem.at = i THEN NULL
                           ELSE Ptr(str_to_lower(Str(name)))
         IN  IF name_lower # NULL /\ strstr(Str(name_lower), query_lower)
             THEN search_loop(all_sites,
                      (IF mem.what = "strdup" /\ mem.at = i
                       THEN add_stop_to_list_nomem(filtered_sites, name,
                                                   all_sites.stops[i].id)
                       ELSE add_stop_to_list(filtered_sites, name,
                                             all_sites.stops[i].id)).list,
                      query_lower, mem, i + 1)
             ELSE search_loop(all_sites, filtered_sites, query_lower, mem, i + 1)

\* sl_search_stops(client, query, &result) on the outcome of its request
sl_search_stops(query, outcome, mem) ==
    IF outcome.res # CURLE_OK THEN [ret |-> -1, result |-> NULL]
    ELSE IF outcome.code # HTTP_OK THEN [ret |-> -1, result |-> NULL]
    ELSE LET parsed == parse_sites_json(outcome.body)
         IN  IF parsed.ret # 0 THEN [ret |-> -1, result |-> NULL]
             ELSE IF mem.what = "create" THEN [ret |-> -1, result |-> NULL]
             ELSE IF mem.what = "query_lower" THEN [ret |-> -1, result |-> NULL]
             ELSE [ret |-> 0,
                   result |-> search_loop(parsed.result, create_stop_list,
                                          str_to_lower(query), mem, 0)]

\* "CENTRAL"
TXT_CENTRAL == <<67, 69, 78, 84, 82, 65, 76>>

Queries == {<<>>, TXT_centralen, TXT_CENTRAL, TXT_solna}

SearchElements ==
    { JSite(JString(TXT_Odenplan), JInt(9117)),
      JSite(JString(TXT_TCentralen), JInt(9001)),
      JSite(JString(TXT_CentralenNorra), JInt(9002)),
      JSite(JString(TXT_TCentralen), JAbsent) }

SearchOutcomes ==
    { [res |-> 7, code |-> 0, body |-> [type |-> "invalid"]],
      [res |-> CURLE_OK, code |-> 503, body |-> [type |-> "invalid"]],
      [res |-> CURLE_OK, code |-> HTTP_OK, body |-> [type |-> "object", departures |-> JNull]] }
    \cup { [res |-> CURLE_OK, code |-> HTTP_OK, body |-> JArray(elems)] :
             elems \in SeqsUpTo(SearchElements, MaxSites) }

AllocOutcomes ==
    { [at |-> 0, what |-> "none"], [at |-> 0, what |-> "create"],
      [at |-> 0, what |-> "query_lower"] }
    \cup { [at |-> i, what |-> w] :
             i \in 0..(MaxSites - 1), w \in {"name_lower", "strdup"} }

InitSearch ==
    /\ MatchIdle
    /\ ListIdle
    /\ CallIdle
    /\ TimeIdle
    /\ ShowIdle
    /\ MainIdle
    /\ arg_query \in Queries
    /\ request \in SearchOutcomes
    /\ alloc \in AllocOutcomes
    /\ stops_ret = 1
    /\ slist = NULL

SearchStops ==
    /\ stops_ret = 1
    /\ LET found == sl_search_stops(arg_query, request, alloc)
       IN  /\ stops_ret' = found.ret
           /\ slist' = found.result
    /\ UNCHANGED <<matchVars, listVars, callVars, timeVars, showVars, mainVars, arg_query, request, alloc>>

NextSearch == SearchStops

SpecSearch == InitSearch /\ [][NextSearch]_vars

(***************************************************************************)
(* SpecMain: main from its first statement, on a command line: libcurl is  *)
(* initialised, the arguments are parsed and validated, the client is      *)
(* created, the command's handler runs (for departures through the steps   *)
(* of Spec), and main returns.                                             *)
(***************************************************************************)
\* "ferry", "Bus", "bogus", "0", "2", "101", "-x", "--transport-type", "--li"
TXT_Bus == <<66, 117, 115>>

TXT_bogus == <<98, 111, 103, 117, 115>>

TXT_0 == <<48>>

TXT_2 == <<50>>

TXT_101 == <<49, 48, 49>>

LIT_dash_x == <<45, 120>>

LIT_dash_dash_transport_type == <<45, 45, 116, 114, 97, 110, 115, 112, 111, 114, 116, 45, 116, 121, 112, 101>>

LIT_dash_dash_li == <<45, 45, 108, 105>>

\* the command lines: no command, commands without their argument, an
\* unknown command, help, searches, and departures with valid options,
\* with a transport type outside the enumeration, with a count of 0 or 101,
\* with an empty station, with an unknown option, with an option given
\* twice, with -h after other options
CommandLines ==
    { <<>>,
      <<LIT_search>>,
      <<LIT_search, TXT_centralen>>,
      <<TXT_bogus>>,
      <<LIT_help>>,
      <<LIT_departures>>,
      <<LIT_departures, TXT_9001>>,
      <<LIT_departures, TXT_centralen, LIT_dash_t, LIT_train>>,
      <<LIT_departures, TXT_9001, LIT_dash_t, LIT_bus, LIT_dash_dash_li, TXT_28,
        LIT_dash_d, TXT_airport, LIT_dash_c, TXT_2>>,
      <<LIT_departures, TXT_centralen, LIT_dash_t, TXT_ferry>>,
      <<LIT_departures, TXT_9001, LIT_dash_dash_transport_type, TXT_Bus>>,
      <<LIT_departures, TXT_9001, LIT_dash_t, TXT_ferry, LIT_dash_h>>,
      <<LIT_departures, TXT_9001, LIT_dash_t, TXT_ferry, LIT_dash_c, TXT_0>>,
      <<LIT_departures, TXT_9001, LIT_dash_c, TXT_0>>,
      <<LIT_departures, TXT_9001, LIT_dash_c, TXT_101>>,
      <<LIT_departures, <<>>, LIT_dash_l, TXT_28>>,
      <<LIT_departures, TXT_centralen, LIT_dash_l, TXT_28, LIT_dash_x>>,
      <<LIT_departures, TXT_9001, LIT_dash_l, TXT_28, LIT_dash_l, TXT_28x>>,
      <<LIT_departures, TXT_9001, LIT_dash_d, TXT_airport, LIT_dash_h>> }

InitMain ==
    /\ MatchIdle
    /\ ListIdle
    /\ SiteIdle
    /\ TimeIdle
    /\ ShowIdle
    /\ pc = "main"
    /\ argv \in CommandLines
    /\ args = IndeterminateArgs
    /\ cli_heap = [allocated |-> 0, freed |-> 0]
    /\ client = [created |-> 0, freed |-> 0]
    /\ curl = [init |-> "none", cleanups |-> 0]
    /\ arg_station = <<>>
    /\ arg_line = NULL
    /\ arg_transport = NULL
    /\ arg_destination = NULL
    /\ station_id = U32_ZERO
    /\ fetches = <<>>
    /\ ret = 1
    /\ result = NULL
    /\ handler_ret = 1
    /\ exit_code = -1

\* an exit of main before a handler ran: free_cli_args (on the paths that
\* call it), curl_global_cleanup, return code
LeaveMain(a, heap, free_args, code) ==
    /\ args' = IF free_args THEN free_cli_args(a, heap).args ELSE a
    /\ cli_heap' = IF free_args THEN free_cli_args(a, heap).heap ELSE heap
    /\ curl' = curl_global_cleanup(curl)
    /\ exit_code' = code
    /\ pc' = "exited"

\* curl_global_init(CURL_GLOBAL_DEFAULT): main returns at once when it fails
MainCurlInit ==
    /\ pc = "main"
    /\ \E ok \in BOOLEAN :
         IF ok
         THEN /\ curl' = [curl EXCEPT !.init = "ok"]
              /\ pc' = "parse_args"
              /\ UNCHANGED exit_code
         ELSE /\ curl' = [curl EXCEPT !.init = "failed"]
              /\ exit_code' = EXIT_FAILURE
              /\ pc' = "exited"
    /\ UNCHANGED <<matchVars, listVars, siteVars, timeVars, showVars, argv, args,
                   cli_heap, client, argVars, station_id, fetches, ret, result,
                   handler_ret>>

\* parse_args and the two tests of parse_result
MainParseArgs ==
    /\ pc = "parse_args"
    /\ LET parsed == parse_args(argv, args)
           heap == [cli_heap EXCEPT !.allocated = @ + parsed.allocated]
       IN  IF parsed.ret < 0 THEN LeaveMain(parsed.args, heap, FALSE, EXIT_FAILURE)
           ELSE IF parsed.ret = 1 THEN LeaveMain(parsed.args, heap, TRUE, EXIT_SUCCESS)
           ELSE /\ args' = parsed.args
                /\ cli_heap' = heap
                /\ pc' = "validate_args"
                /\ UNCHANGED <<curl, exit_code>>
    /\ UNCHANGED <<matchVars, listVars, siteVars, timeVars, showVars, argv, client,
                   argVars, station_id, fetches, ret, result, handler_ret>>

\* validate_args and the test for CMD_HELP
MainValidateArgs ==
    /\ pc = "validate_args"
    /\ IF validate_args(args) # 0 THEN LeaveMain(args, cli_heap, TRUE, EXIT_FAILURE)
       ELSE IF args.command = "CMD_HELP"
       THEN LeaveMain(args, cli_heap, TRUE, EXIT_SUCCESS)
       ELSE /\ pc' = "sl_client_new"
            /\ UNCHANGED <<args, cli_heap, curl, exit_code>>
    /\ UNCHANGED <<matchVars, listVars, siteVars, timeVars, showVars, argv, client,
                   argVars, station_id, fetches, ret, result, handler_ret>>

\* sl_client_new(), which gives NULL when it cannot allocate
MainClientNew ==
    /\ pc = "sl_client_new"
    /\ \E ok \in BOOLEAN :
         IF ok
         THEN /\ client' = [client EXCEPT !.created = @ + 1]
              /\ pc' = "dispatch"
              /\ UNCHANGED <<args, cli_heap, curl, exit_code>>
         ELSE /\ LeaveMain(args, cli_heap, TRUE, EXIT_FAILURE)
              /\ UNCHANGED client
    /\ UNCHANGED <<matchVars, listVars, siteVars, timeVars, showVars, argv,
                   argVars, station_id, fetches, ret, result, handler_ret>>

\* case CMD_DEPARTURES: handle_departures is entered
MainCallHandleDepartures ==
    /\ pc = "dispatch"
    /\ args.command = "CMD_DEPARTURES"
    /\ EnterHandleDepartures(args)
    /\ UNCHANGED <<matchVars, listVars, auxVars, station_id, fetches, ret, result,
                   exitVars>>

\* case CMD_SEARCH: handle_search, which prints the stops sl_search_stops
\* found and frees the list (the lines printed are not part of the state)
MainHandleSearch ==
    /\ pc = "dispatch"
    /\ args.command = "CMD_SEARCH"
    /\ \E outcome \in SearchOutcomes, mem \in AllocOutcomes :
          LET found == sl_search_stops(Str(args.query), outcome, mem)
          IN  /\ arg_query' = Str(args.query)
              /\ request' = outcome
              /\ alloc' = mem
              /\ stops_ret' = found.ret
              /\ handler_ret' = IF found.ret # 0 THEN -1 ELSE 0
              /\ fetches' = Append(fetches,
                                   [kind |-> "sites", id |-> <<>>,
                                    ok |-> outcome.res = CURLE_OK
                                           /\ outcome.code = HTTP_OK])
    /\ pc' = "handled"
    /\ UNCHANGED <<matchVars, listVars, timeVars, showVars, mainVars, slist, argVars,
                   station_id, ret, result, exit_code>>

NextMain ==
    \/ MainCurlInit
    \/ MainParseArgs
    \/ MainValidateArgs
    \/ MainClientNew
    \/ MainCallHandleDepartures
    \/ MainHandleSearch
    \/ Next

SpecMain == InitMain /\ [][NextMain]_vars

(***************************************************************************)
(* SpecList: add_stop_to_list, add_departure_to_list and                   *)
(* filter_departures_by_line on the lists create_stop_list and             *)
(* create_departure_list made; at most one allocation of a run fails       *)
(* (realloc or strdup returning NULL), and alloc records which.            *)
(***************************************************************************)
\* most stops appended to the stop list
MaxStops == 11

\* most departures appended to the departure list
MaxDepartures == 21

\* add_stop_to_list with the allocation mem returning NULL ("none": every
\* allocation succeeds); realloc is only called when the list is full
add_stop_to_list_mem(list, name, id, mem) ==
    IF list = NULL \/ name = NULL THEN [ret |-> -1, list |-> list]
    ELSE IF mem = "realloc" /\ list.count >= list.capacity
         THEN [ret |-> -1, list |-> list]
         ELSE IF mem = "strdup" THEN add_stop_to_list_nomem(list, name, id)
              ELSE add_stop_to_list(list, name, id)

\* add_departure_to_list with the allocation mem returning NULL: realloc,
\* or the strdup of one of the four strings. The test after the four
\* copies looks at destination, expected and designation and not at
\* group_of_lines; on failure the copies are freed, count stays, and the
\* slot at count (which the program does not read) keeps stale pointers
add_departure_to_list_mem(list, destination, expected, desig, group_of_lines, blk, mem) ==
    IF list = NULL \/ destination = NULL \/ expected = NULL \/ desig = NULL
    THEN [ret |-> -1, list |-> list]
    ELSE IF mem = "realloc" /\ list.count >= list.capacity
         THEN [ret |-> -1, list |-> list]
         ELSE LET added == add_departure_to_list(list, destination, expected, desig,
                               (IF mem = "group_of_lines" THEN NULL
                                ELSE group_of_lines), blk)
              IN  IF mem \in {"destination", "expected", "designation"}
                  THEN [ret |-> -1,
                        list |-> [added.list EXCEPT !.count = list.count,
                                                    !.departures[list.count] = FreshSlot]]
                  ELSE added

\* the stop appended when the list holds count stops
NextStop(count) == [name |-> Ptr(TXT_Odenplan), id |-> int_to_unsigned_int(9001 + count)]

\* the departure appended as allocation blk: lines 28 and 14 in turn
NextDeparture(blk) ==
    IF blk % 2 = 1
    THEN [destination |-> Ptr(TXT_To9001Central), expected |-> Ptr(TS_133200),
          line |-> [designation |-> Ptr(TXT_28),
                    group_of_lines |-> Ptr(TXT_ROSLAGSBANAN)]]
    ELSE [destination |-> Ptr(TXT_ToAirport), expected |-> Ptr(TS_134330),
          line |-> [designation |-> Ptr(TXT_14),
                    group_of_lines |-> Ptr(TXT_TunnelbanansBlaLinje)]]

\* the state after create_stop_list(), or after create_departure_list()
InitLists ==
    /\ MatchIdle
    /\ CallIdle
    /\ TimeIdle
    /\ ShowIdle
    /\ MainIdle
    /\ payload = [type |-> "invalid"]
    /\ parse_ret = 1
    /\ normalized = <<>>
    /\ last_op = NoOp
    /\ free_count = <<>>
    /\ arg_query = <<>>
    /\ request = [res |-> CURLE_OK, code |-> HTTP_OK, body |-> [type |-> "invalid"]]
    /\ alloc = [at |-> 0, what |-> "none"]
    /\ stops_ret = 1
    /\ \/ slist = create_stop_list /\ dlist = NULL
       \/ slist = NULL /\ dlist = create_departure_list

\* add_stop_to_list(slist, name, id)
AppendStop ==
    /\ slist # NULL
    /\ slist.count < MaxStops
    /\ \E mem \in {"none", "realloc", "strdup"} :
         LET stop == NextStop(slist.count)
             added == add_stop_to_list_mem(slist, stop.name, stop.id, mem)
         IN  /\ mem = "realloc" => slist.count >= slist.capacity
             /\ mem # "none" => alloc.what = "none"
             /\ slist' = added.list
             /\ alloc' = IF mem = "none" THEN alloc
                         ELSE [at |-> slist.count, what |-> mem]
             /\ last_op' = [op |-> "add_stop", token |-> stop, before |-> slist,
                            mem |-> mem, ret |-> added.ret]
    /\ UNCHANGED <<matchVars, callVars, timeVars, showVars, mainVars>>
    /\ UNCHANGED <<payload, parse_ret, dlist, free_count, normalized>>
    /\ UNCHANGED <<arg_query, request, stops_ret>>

\* add_departure_to_list(dlist, destination, expected, designation, group)
AppendDeparture ==
    /\ dlist # NULL
    /\ Len(free_count) < MaxDepartures
    /\ \E mem \in {"none", "realloc", "destination", "expected", "designation",
                   "group_of_lines"} :
         LET blk == Len(free_count) + 1
             departure == NextDeparture(blk)
             added == add_departure_to_list_mem(dlist, departure.destination,
                          departure.expected, departure.line.designation,
                          departure.line.group_of_lines, blk, mem)
         IN  /\ mem = "realloc" => dlist.count >= dlist.capacity
             /\ mem # "none" => alloc.what = "none"
             /\ dlist' = added.list
             /\ free_count' = IF added.ret = 0 THEN Append(free_count, 0)
                              ELSE free_count
             /\ alloc' = IF mem = "none" THEN alloc
                         ELSE [at |-> dlist.count, what |-> mem]
             /\ last_op' = [op |-> "add_departure", token |-> departure,
                            before |-> dlist, mem |-> mem, ret |-> added.ret]
    /\ UNCHANGED <<matchVars, callVars, timeVars, showVars, mainVars>>
    /\ UNCHANGED <<payload, parse_ret, normalized>>
    /\ UNCHANGED <<arg_query, request, stops_ret, slist>>

\* filter_departures_by_line(dlist, line)
FilterListByLine ==
    /\ dlist # NULL
    /\ \E line \in {Ptr(TXT_28)} :
         LET filtered == filter_departures_by_line(dlist, free_count, line)
         IN  /\ dlist' = filtered.list
             /\ free_count' = filtered.freed
             /\ last_op' = [op |-> "line", token |-> line, before |-> dlist,
                            mem |-> "none", ret |-> 0]
    /\ UNCHANGED <<matchVars, callVars, timeVars, showVars, mainVars>>
    /\ UNCHANGED <<payload, parse_ret, normalized>>
    /\ UNCHANGED <<arg_query, request, alloc, stops_ret, slist>>

NextLists ==
    \/ AppendStop
    \/ AppendDeparture
    \/ FilterListByLine

SpecList == InitLists /\ [][NextLists]_vars

(***************************************************************************)
(* SpecMatch: line_matches_filter on every pair of short strings.          *)
(***************************************************************************)
\* '0' '2' '8' 'X' 'x' and the first byte of a UTF-8 encoded letter
LineAlphabet == {48, 50, 56, 88, 120, 195}

StringsUpTo(alphabet, n) == SeqsUpTo(alphabet, n)

InitMatch ==
    /\ designation \in StringsUpTo(LineAlphabet, MaxLen)
    /\ line_filter \in StringsUpTo(LineAlphabet, MaxLen)
    /\ match_ret = -1
    /\ ListIdle
    /\ CallIdle
    /\ SiteIdle
    /\ TimeIdle
    /\ ShowIdle
    /\ MainIdle

CallLineMatchesFilter ==
    /\ match_ret = -1
    /\ match_ret' = line_matches_filter(Ptr(designation), Ptr(line_filter))
    /\ UNCHANGED <<designation, line_filter, listVars, callVars, auxVars>>

NextMatch == CallLineMatchesFilter

SpecMatch == InitMatch /\ [][NextMatch]_vars

(***************************************************************************)
(* The line-match rule as the specification words it.                      *)
(***************************************************************************)
\* upper-case form of an ASCII letter, any other byte unchanged
FoldCase(c) == IF c \in 97..122 THEN c - 32 ELSE c

EqualsIgnoreCase(a, b) ==
    /\ Len(a) = Len(b)
    /\ \A i \in 1..Len(a) : FoldCase(a[i]) = FoldCase(b[i])

StartsWithIgnoreCase(a, prefix) ==
    /\ Len(prefix) <= Len(a)
    /\ EqualsIgnoreCase(SubSeq(a, 1, Len(prefix)), prefix)

IsLetter(c) == \E k \in 0..25 : c = 65 + k \/ c = 97 + k

LineMatchRule(desig, token) ==
    \/ EqualsIgnoreCase(desig, token)
    \/ /\ StartsWithIgnoreCase(desig, token)
       /\ Len(desig) > Len(token)
       /\ IsLetter(desig[Len(token) + 1])

\* C1: line_matches_filter(designation, token) is true exactly when the
\* designation equals the token case-insensitively, or starts with it
\* case-insensitively and the next character exists and is a letter.
C1_LineMatchRule ==
    match_ret # -1 =>
        ((match_ret # 0) <=> LineMatchRule(designation, line_filter))

\* C1 witness: "28X" against token "28" has been matched by the suffix rule.
C1_Witness ==
    /\ match_ret = 1
    /\ designation = <<50, 56, 88>>
    /\ line_filter = <<50, 56>>

(***************************************************************************)
(* The filters and the normalization as the specification words them.      *)
(***************************************************************************)
Contains(haystack, needle) ==
    \E i \in 1..(Len(haystack) + 1) :
        /\ i + Len(needle) - 1 <= Len(haystack)
        /\ \A k \in 1..Len(needle) : haystack[i + k - 1] = needle[k]

FoldCaseStr(s) == [i \in 1..Len(s) |-> FoldCase(s[i])]

ContainsIgnoreCase(haystack, needle) ==
    Contains(FoldCaseStr(haystack), FoldCaseStr(needle))

\* lower case of a UTF-8 text: ASCII letters, and the capital letters
\* U+00C0..U+00DE (0xC3 0x80..0x9E, without the sign U+00D7)
Utf8Lower(s) ==
    [i \in 1..Len(s) |->
        IF s[i] \in 65..90 THEN s[i] + 32
        ELSE IF i > 1 /\ s[i - 1] = 195 /\ s[i] \in 128..158 /\ s[i] # 151
             THEN s[i] + 32
             ELSE s[i]]

\* the patterns of a category, in UTF-8: tunnelbanan; buss, närtrafiken;
\* pendeltåg, roslagsbanan; spårväg
CategoryPatterns(token) ==
    IF token = LIT_metro THEN {LIT_tunnelbanan}
    ELSE IF token = LIT_bus
    THEN {LIT_buss,
          <<110, 195, 164, 114, 116, 114, 97, 102, 105, 107, 101, 110>>}
    ELSE IF token = LIT_train
    THEN {<<112, 101, 110, 100, 101, 108, 116, 195, 165, 103>>, LIT_roslagsbanan}
    ELSE IF token = LIT_tram
    THEN {<<115, 112, 195, 165, 114, 118, 195, 164, 103>>}
    ELSE {}

\* made only of decimal digits, at least one
IsDecimal(token) ==
    /\ Len(token) > 0
    /\ \A i \in 1..Len(token) : token[i] \in 48..57

\* the decimal representation of the integer a digit string denotes: the
\* string without its leading zeros
RECURSIVE DecimalOf(_)
DecimalOf(token) ==
    IF Len(token) > 1 /\ token[1] = 48 THEN DecimalOf(Tail(token)) ELSE token

IsSubsequence(a, b) ==
    \E f \in [1..Len(a) -> 1..Len(b)] :
        /\ \A i \in 1..Len(a) : a[i] = b[f[i]]
        /\ \A i \in 1..Len(a) : \A j \in 1..Len(a) : i < j => f[i] < f[j]

\* C2: filter_departures_by_line leaves exactly the departures whose
\* designation satisfies the line-match rule, each once, in their order.
C2_FilterByLineRetainsMatches ==
    last_op.op = "line" =>
        LET Keep(d) == LineMatchRule(Str(d.line.designation), Str(last_op.token))
        IN  Visible(dlist) = SelectSeq(last_op.before, Keep)

\* C2 witness: a list of three with designations 14, 28X, 14 was filtered by
\* "14" and the first and the third remain.
C2_Witness ==
    /\ last_op.op = "line"
    /\ last_op.token = Ptr(TXT_14)
    /\ Len(last_op.before) = 3
    /\ last_op.before[2].line.designation = Ptr(TXT_28X)
    /\ dlist.count = 2
    /\ Visible(dlist) = <<last_op.before[1], last_op.before[3]>>

\* C3 (as claimed): for a token in {metro, bus, train, tram} the transport
\* filter retains a departure iff its transport group contains, compared
\* case-insensitively, a pattern of that category, in the original order.
C3_TransportRetainsCategory ==
    (last_op.op = "transport" /\ Str(last_op.token) \in TransportTypes) =>
        LET Keep(d) ==
                \E pattern \in CategoryPatterns(Str(last_op.token)) :
                    Contains(Utf8Lower(Str(d.line.group_of_lines)),
                             Utf8Lower(pattern))
        IN  Visible(dlist) = SelectSeq(last_op.before, Keep)

\* C4 (as claimed): for a token that is not made only of decimal digits the
\* destination filter retains exactly the departures whose destination
\* contains the token as a case-insensitive substring, in original order.
C4_DestinationTextBranch ==
    (last_op.op = "destination" /\ ~IsDecimal(Str(last_op.token))) =>
        LET Keep(d) == ContainsIgnoreCase(Str(d.destination), Str(last_op.token))
        IN  Visible(dlist) = SelectSeq(last_op.before, Keep)

\* C5 (as claimed): for a token that is a non-negative integer n of any
\* magnitude the destination filter retains exactly the departures whose
\* destination contains the decimal representation of n.
C5_DestinationNumericBranch ==
    (last_op.op = "destination" /\ IsDecimal(Str(last_op.token))) =>
        LET Keep(d) == Contains(Str(d.destination), DecimalOf(Str(last_op.token)))
        IN  Visible(dlist) = SelectSeq(last_op.before, Keep)

\* C6: after any sequence of filter applications the list is a subsequence
\* of the normalized list (and of the list before the last filter): no
\* longer, in the same relative order, every survivor with its four fields
\* unchanged.
C6_FiltersYieldSubsequence ==
    parse_ret = 0 =>
        /\ IsSubsequence(Visible(dlist), normalized)
        /\ last_op.op # "none" =>
              /\ IsSubsequence(Visible(dlist), last_op.before)
              /\ IsSubsequence(last_op.before, normalized)

\* C6 witness: two filters have each removed a departure and one of the
\* three normalized departures, not the first, survives.
C6_Witness ==
    /\ parse_ret = 0
    /\ Len(normalized) = 3
    /\ last_op.op = "transport"
    /\ Len(last_op.before) = 2
    /\ dlist.count = 1
    /\ Visible(dlist)[1] = normalized[3]

\* what each supplied filter keeps, one departure at a time
KeptByLine(d) == line_matches_filter(d.line.designation, arg_line) # 0

KeptByTransport(d) ==
    /\ d.line.group_of_lines # NULL
    /\ transport_matches(str_to_lower(Str(arg_transport)),
                         str_to_lower(Str(d.line.group_of_lines)))

KeptByDestination(d) ==
    LET conv == strtoul(Str(arg_destination))
    IN  destination_matches(Str(d.destination),
                            CharAt(Str(arg_destination), conv.endptr) = 0,
                            to_unsigned_int(conv.value),
                            str_to_lower(Str(arg_destination)))

AfterLine(s) == IF arg_line # NULL THEN SelectSeq(s, KeptByLine) ELSE s

AfterTransport(s) ==
    IF arg_transport # NULL THEN SelectSeq(s, KeptByTransport) ELSE s

AfterDestination(s) ==
    IF arg_destination # NULL THEN SelectSeq(s, KeptByDestination) ELSE s

\* C7: a successful sl_get_departures hands back exactly the normalized
\* departures that pass every supplied filter (line, then transport, then
\* destination), all of them and in their order; with no filter supplied
\* it hands back the normalized list unchanged.
C7_ReturnsAllFiltered ==
    (pc = "returned" /\ ret = 0) =>
        /\ result # NULL
        /\ Visible(result) = AfterDestination(AfterTransport(AfterLine(normalized)))
        /\ (arg_line = NULL /\ arg_transport = NULL /\ arg_destination = NULL)
              => Visible(result) = normalized

\* C7 witness: the call returned with only a destination token supplied;
\* of two normalized departures the second alone is handed back.
C7_Witness ==
    /\ pc = "returned"
    /\ ret = 0
    /\ arg_line = NULL
    /\ arg_transport = NULL
    /\ arg_destination # NULL
    /\ Len(normalized) = 2
    /\ result.count = 1
    /\ Visible(result)[1] = normalized[2]

\* the list as it leaves parse_departures_json, with nothing freed yet
Parsed ==
    [list |-> parse_departures_json(payload).result,
     freed |-> [blk \in 1..Len(payload.departures.elems) |-> 0]]

ByLine(s) == filter_departures_by_line(s.list, s.freed, arg_line)

ByTransport(s) == filter_departures_by_transport(s.list, s.freed, arg_transport)

ByDestination(s) ==
    filter_departures_by_destination(s.list, s.freed, arg_destination)

SixOrders ==
    { Visible(ByDestination(ByTransport(ByLine(Parsed))).list),
      Visible(ByTransport(ByDestination(ByLine(Parsed))).list),
      Visible(ByDestination(ByLine(ByTransport(Parsed))).list),
      Visible(ByLine(ByDestination(ByTransport(Parsed))).list),
      Visible(ByTransport(ByLine(ByDestination(Parsed))).list),
      Visible(ByLine(ByTransport(ByDestination(Parsed))).list) }

\* C8: when line, transport and destination tokens are all supplied, the
\* three filters applied to the parsed list in each of the six orders give
\* one and the same list, the one sl_get_departures hands back.
C8_FiltersCommute ==
    (pc = "returned" /\ ret = 0 /\ arg_line # NULL /\ arg_transport # NULL
        /\ arg_destination # NULL) =>
        SixOrders = {Visible(result)}

\* C8 witness: all three tokens supplied, two departures parsed, the first
\* removed and the second handed back.
C8_Witness ==
    /\ pc = "returned"
    /\ ret = 0
    /\ arg_line # NULL
    /\ arg_transport # NULL
    /\ arg_destination # NULL
    /\ Len(normalized) = 2
    /\ result.count = 1
    /\ Visible(result)[1] = normalized[2]
    /\ ByLine(Parsed).list.count = 2
    /\ ByDestination(Parsed).list.count = 2

\* a record with string destination, string expected, object line with
\* string designation and string group_of_lines
IsCompleteRecord(e) ==
    /\ e.type = "object"
    /\ e.destination.type = "string"
    /\ e.expected.type = "string"
    /\ e.line.type = "object"
    /\ e.line.designation.type = "string"
    /\ e.line.group_of_lines.type = "string"

HasDeparturesArray(root) ==
    /\ root.type = "object"
    /\ root.departures.type = "array"

FieldsOfRecord(e) ==
    <<e.destination.str, e.expected.str, e.line.designation.str,
      e.line.group_of_lines.str>>

FieldsOfDeparture(d) ==
    <<d.destination, d.expected, d.line.designation, d.line.group_of_lines>>

\* C9: parse_departures_json fails only when the top-level value has no
\* array field departures; otherwise it returns, in payload order, one
\* departure for each complete record and skips every other element.
C9_NormalizeDepartures ==
    parse_ret # 1 =>
        /\ parse_ret # 0 <=> ~HasDeparturesArray(payload)
        /\ parse_ret = 0 =>
              LET complete == SelectSeq(payload.departures.elems, IsCompleteRecord)
              IN  /\ dlist.count = Len(complete)
                  /\ \A i \in 1..Len(complete) :
                        FieldsOfDeparture(Visible(dlist)[i]) =
                            [k \in 1..4 |-> Ptr(FieldsOfRecord(complete[i])[k])]

\* C9 witness: of two elements the first lacks group_of_lines, the second
\* is complete; the call succeeded with the second alone.
C9_Witness ==
    /\ parse_ret = 0
    /\ Len(payload.departures.elems) = 2
    /\ payload.departures.elems[1].type = "object"
    /\ payload.departures.elems[1].line.type = "object"
    /\ payload.departures.elems[1].line.designation.type = "string"
    /\ payload.departures.elems[1].line.group_of_lines.type = "absent"
    /\ IsCompleteRecord(payload.departures.elems[2])
    /\ dlist.count = 1
    /\ dlist.departures[0].blk = 2

NonEmpty(p) == p # NULL /\ Len(Str(p)) > 0

HasNonEmptyFields(e) ==
    /\ IsCompleteRecord(e)
    /\ \A k \in 1..4 : Len(FieldsOfRecord(e)[k]) > 0

IsCompleteSite(e) ==
    /\ e.type = "object"
    /\ e.name.type = "string"
    /\ e.id.type = "integer"

\* the station id is the integer n itself
IdIs(id, n) == n >= 0 /\ id = [lo |-> n % 65536, hi |-> n \div 65536]

\* C11 (as claimed): parse_sites_json fails only when the top-level value
\* is not an array; otherwise it returns, in payload order, one station for
\* each element that is an object with a string name and an integer id,
\* carrying exactly that name and that id, and skips every other element.
C11_NormalizeStations ==
    stops_ret # 1 =>
        /\ stops_ret # 0 <=> request.body.type # "array"
        /\ stops_ret = 0 =>
              LET complete == SelectSeq(request.body.elems, IsCompleteSite)
              IN  /\ slist.count = Len(complete)
                  /\ \A i \in 1..Len(complete) :
                        /\ VisibleStops(slist)[i].name = Ptr(complete[i].name.str)
                        /\ IdIs(VisibleStops(slist)[i].id, complete[i].id.int)


\* C12 (as claimed): for a station string that is a non-negative integer n,
\* sl_get_departures issues no site-list fetch and makes its single
\* departures request for exactly station id n.
C12_NumericStationPassesThrough ==
    IsDecimal(arg_station) =>
        /\ \A i \in 1..Len(fetches) : fetches[i].kind # "sites"
        /\ Len(fetches) <= 1
        /\ pc \notin {"resolve", "fetch"} =>
              /\ Len(fetches) = 1
              /\ fetches[1].kind = "departures"
              /\ fetches[1].id = DecimalOf(arg_station)

\* the stations of the fetched site list: its elements that are objects
\* with a string name and an integer id
FetchedSites ==
    IF request.res = CURLE_OK /\ request.code = HTTP_OK /\ request.body.type = "array"
    THEN SelectSeq(request.body.elems, IsCompleteSite)
    ELSE <<>>

NameContains(site, text) == ContainsIgnoreCase(site.name.str, text)

MatchingSites(text) ==
    LET Matches(site) == NameContains(site, text)
    IN  SelectSeq(FetchedSites, Matches)

\* C13 (as claimed): for a station string that is not a non-negative
\* integer, resolution issues exactly one site-list fetch and, when a
\* station name contains the string case-insensitively, resolves to the id
\* of the first such station, which the departures request then uses.
C13_NameResolvesToFirstMatch ==
    (~IsDecimal(arg_station) /\ pc # "resolve") =>
        /\ Len(fetches) >= 1
        /\ fetches[1].kind = "sites"
        /\ \A i \in 2..Len(fetches) : fetches[i].kind # "sites"
        /\ MatchingSites(arg_station) # <<>> =>
              /\ IdIs(station_id, MatchingSites(arg_station)[1].id.int)
              /\ \A i \in 1..Len(fetches) :
                    fetches[i].kind = "departures" =>
                        fetches[i].id = u32_to_decimal(station_id)

\* a name lookup was made
LookedUpByName == Len(fetches) >= 1 /\ fetches[1].kind = "sites"

\* C14: when the station name matches no station of the site list,
\* sl_get_departures fails, issues no departures fetch and delivers no
\* list; a departures fetch that follows a name lookup is never for id 0.
C14_NotFoundStopsTheQuery ==
    /\ (LookedUpByName /\ MatchingSites(arg_station) = <<>>) =>
          /\ pc \in {"returned", "handled", "exited"}
          /\ ret = -1
          /\ Len(fetches) = 1
          /\ result = NULL
    /\ LookedUpByName =>
          \A i \in 2..Len(fetches) : fetches[i].id # <<48>>

\* C14 witness: the site list was fetched and holds stations, none of which
\* contains the name; the call has returned -1 after that one fetch.
C14_Witness ==
    /\ pc = "returned"
    /\ LookedUpByName
    /\ fetches[1].ok
    /\ Len(FetchedSites) = 3
    /\ MatchingSites(arg_station) = <<>>
    /\ ret = -1
    /\ Len(fetches) = 1

\* C16: a query performs at most two fetches, the site-list fetch before
\* the departures fetch, each at most once; after a fetch that failed at
\* transport level or with a status other than 200 the query has failed:
\* that fetch is the last one and no list is delivered.
C16_FetchesAndFailures ==
    /\ Len(fetches) <= 2
    /\ \A i \in 1..Len(fetches) :
          /\ fetches[i].kind = "sites" => i = 1
          /\ fetches[i].kind = "departures" => i = Len(fetches)
          /\ ~fetches[i].ok =>
                /\ i = Len(fetches)
                /\ pc \in {"returned", "handled", "exited"}
                /\ ret = -1
                /\ result = NULL
                /\ parse_ret = 1

\* C16 witness: the site-list fetch succeeded, the departures fetch failed
\* and the call has returned -1.
C16_Witness ==
    /\ pc = "returned"
    /\ Len(fetches) = 2
    /\ fetches[1].kind = "sites"
    /\ fetches[1].ok
    /\ fetches[2].kind = "departures"
    /\ ~fetches[2].ok
    /\ ret = -1
    /\ result = NULL

\* the station resolved and the departures payload is well-formed
ResolvedAndWellFormed ==
    /\ Len(fetches) >= 1
    /\ fetches[Len(fetches)].kind = "departures"
    /\ fetches[Len(fetches)].ok
    /\ HasDeparturesArray(payload)

\* C17: a query whose station resolves and whose departures payload is
\* well-formed succeeds, also when no departure is left: sl_get_departures
\* returns 0 with a list and the process exits with success; a station name
\* that matches no station makes the call and the process fail.
C17_EmptyResultIsSuccess ==
    /\ (ResolvedAndWellFormed /\ pc = "returned") => (ret = 0 /\ result # NULL)
    /\ (ResolvedAndWellFormed /\ pc = "exited") =>
          (ret = 0 /\ handler_ret = 0 /\ exit_code = EXIT_SUCCESS)
    /\ (LookedUpByName /\ fetches[1].ok /\ MatchingSites(arg_station) = <<>>
           /\ pc = "exited") =>
          (ret = -1 /\ exit_code = EXIT_FAILURE)

\* C17 witness: two departures were normalized, the filters left none, and
\* the process has exited with success.
C17_Witness ==
    /\ pc = "exited"
    /\ ResolvedAndWellFormed
    /\ Len(normalized) = 2
    /\ AfterDestination(AfterTransport(AfterLine(normalized))) = <<>>
    /\ ret = 0
    /\ exit_code = EXIT_SUCCESS


\* the stations parse_sites_json makes of the fetched site list
ParsedSites == VisibleStops(parse_sites_json(request.body).result)

\* C15 (as claimed): sl_search_stops returns exactly the stations of the
\* fetched site list whose name contains the query as a case-insensitive
\* substring, all of them and in site-list order; with an empty query it
\* returns every station.
C15_SearchReturnsAllMatches ==
    stops_ret = 0 =>
        LET Matches(stop) == ContainsIgnoreCase(Str(stop.name), arg_query)
        IN  /\ VisibleStops(slist) = SelectSeq(ParsedSites, Matches)
            /\ arg_query = <<>> => VisibleStops(slist) = ParsedSites

(***************************************************************************)
(* Timestamps, read independently of strptime: the 19 bytes of             *)
(* YYYY-MM-DDTHH:MM:SS, each field of its full width and within its range. *)
(***************************************************************************)
Digits2(s, i) == (s[i] - 48) * 10 + (s[i + 1] - 48)

Digits4(s, i) == Digits2(s, i) * 100 + Digits2(s, i + 2)

IsLeapYear(y) == (y % 4 = 0 /\ y % 100 # 0) \/ y % 400 = 0

DaysInMonth(y, m) ==
    IF m = 2 THEN (IF IsLeapYear(y) THEN 29 ELSE 28)
    ELSE IF m \in {4, 6, 9, 11} THEN 30 ELSE 31

FixedFormat(s) ==
    /\ Len(s) = 19
    /\ \A i \in {1, 2, 3, 4, 6, 7, 9, 10, 12, 13, 15, 16, 18, 19} : s[i] \in 48..57
    /\ s[5] = 45 /\ s[8] = 45 /\ s[11] = 84 /\ s[14] = 58 /\ s[17] = 58

WellFormedTimestamp(s) ==
    /\ FixedFormat(s)
    /\ Digits2(s, 6) \in 1..12
    /\ Digits2(s, 9) \in 1..DaysInMonth(Digits4(s, 1), Digits2(s, 6))
    /\ Digits2(s, 12) \in 0..23
    /\ Digits2(s, 15) \in 0..59
    /\ Digits2(s, 18) \in 0..59

\* seconds of local civil time, counted from 1970-01-01T00:00:00 on the
\* wall clock
CivilSeconds(y, m, d, hh, mm, ss) ==
    days_from_civil(y, m, d) * 86400 + hh * 3600 + mm * 60 + ss

TimestampSeconds(s) ==
    CivilSeconds(Digits4(s, 1), Digits2(s, 6), Digits2(s, 9), Digits2(s, 12),
                 Digits2(s, 15), Digits2(s, 18))

NowSeconds ==
    CivilSeconds(now_tm.tm_year + 1900, now_tm.tm_mon + 1, now_tm.tm_mday,
                 now_tm.tm_hour, now_tm.tm_min, now_tm.tm_sec)

\* seconds from the current local time to the timestamp, on the wall clock
SecondsUntil == TimestampSeconds(time_str) - NowSeconds

\* C18: for a well-formed timestamp calculate_wait_minutes returns the whole
\* minutes from now to the timestamp (the fraction dropped) when the
\* timestamp is after now, and 0 when it is at or before now
C18_WaitMinutesTruncatedAndClamped ==
    (wait_ret # -2 /\ WellFormedTimestamp(time_str)) =>
        wait_ret = (IF SecondsUntil > 0 THEN SecondsUntil \div 60 ELSE 0)

\* C19: for a timestamp k whole minutes (k >= 0) after the current local
\* time calculate_wait_minutes returns k, with daylight-saving time in
\* effect or not
C19_LocalCivilTime ==
    \A dst \in {0, 1} :
        (/\ wait_ret # -2
         /\ now_tm.tm_isdst = dst
         /\ WellFormedTimestamp(time_str)
         /\ SecondsUntil >= 0
         /\ SecondsUntil % 60 = 0) =>
            wait_ret * 60 = SecondsUntil

\* C20: given a buffer of at least 6 bytes, parse_departure_time succeeds
\* exactly on the strings of the format YYYY-MM-DDTHH:MM:SS, writing the
\* timestamp's own HH:MM, and otherwise fails and leaves the buffer as it was
C20_FixedFormatOrParseError ==
    (time_ret # 1 /\ output_size >= 6) =>
        IF WellFormedTimestamp(time_str)
        THEN /\ time_ret = 0
             /\ time_output = Ptr(SubSeq(time_str, 12, 16))
        ELSE /\ time_ret = -1
             /\ time_output = Ptr(TXT_Placeholder)

(***************************************************************************)
(* The table handle_departures prints.                                     *)
(***************************************************************************)
\* the list sl_get_departures handed to handle_departures
Returned == AfterDestination(AfterTransport(AfterLine(normalized)))

Smaller(a, b) == IF a < b THEN a ELSE b

\* the timestamps the parser rejects
CannotBeParsed(p) == ~strptime(Str(p)).ok

\* C21: handle_departures prints one row for each of the first
\* min(count, n) of the n departures it was handed, in their order; the row
\* of a departure whose timestamp cannot be parsed shows "??:??" and "?",
\* and the rows after it are printed all the same
C21_OneRowPerDeparture ==
    (pc \in {"handled", "exited"} /\ ret = 0 /\ Returned # <<>>) =>
        /\ handler_ret = 0
        /\ Len(rows) = Smaller(args.count, Len(Returned))
        /\ \A i \in 1..Len(rows) :
              /\ rows[i].line = Str(Returned[i].line.designation)
              /\ rows[i].destination = Str(Returned[i].destination)
              /\ rows[i].type = Str(Returned[i].line.group_of_lines)
              /\ CannotBeParsed(Returned[i].expected) =>
                    /\ rows[i].time = TXT_Placeholder
                    /\ rows[i].wait = TXT_QuestionMark

\* C21 witness: two departures were handed over, the first with a timestamp
\* that cannot be parsed; both rows were printed
C21_Witness ==
    /\ pc = "handled"
    /\ ret = 0
    /\ Len(Returned) = 2
    /\ CannotBeParsed(Returned[1].expected)
    /\ ~CannotBeParsed(Returned[2].expected)
    /\ Len(rows) = 2
    /\ rows[1].time = TXT_Placeholder
    /\ rows[2].time # TXT_Placeholder

(***************************************************************************)
(* main on a command line.                                                 *)
(***************************************************************************)
\* the words of a departures command line that follow -t or --transport-type
GivenTransportTypes ==
    IF Len(argv) < 1 \/ argv[1] # LIT_departures THEN {}
    ELSE { argv[i + 1] : i \in { j \in 3..(Len(argv) - 1) :
                                   argv[j] \in {LIT_dash_t, LIT_dash_dash_transport_type} } }

RecognizedTransportTypes == {LIT_metro, LIT_bus, LIT_train, LIT_tram}

UnrecognizedTransportGiven ==
    \E token \in GivenTransportTypes : token \notin RecognizedTransportTypes

HelpGiven ==
    \E i \in 1..Len(argv) : argv[i] \in {LIT_dash_h, LIT_dash_dash_help, LIT_help}

\* the transport filter runs with recognized tokens only
TransportFilterPrevalidated ==
    /\ arg_transport # NULL => Str(arg_transport) \in RecognizedTransportTypes
    /\ last_op.op = "transport" => Str(last_op.token) \in RecognizedTransportTypes

C26_ResourcesReleasedOnExit ==
    (pc = "exited" /\ curl.init = "ok") =>
        /\ curl.cleanups = 1
        /\ client.freed = client.created
        /\ cli_heap.freed = cli_heap.allocated

(***************************************************************************)
(* Ownership of the strings of a departure list.                           *)
(***************************************************************************)
\* the allocations of the departures normalization created
NormalizedBlocks == {normalized[i].blk : i \in 1..Len(normalized)}

\* the allocations the slots below count refer to
VisibleBlocks ==
    IF dlist = NULL THEN {}
    ELSE {dlist.departures[i].blk : i \in 0..(dlist.count - 1)}

\* C25: through the filters of a query and the final free_departure_list
\* the strings of every normalized departure are freed at most once; a
\* departure a filter removed has been freed (once), a departure still in
\* the list has not, and once handle_departures has freed the list every
\* normalized departure has been freed exactly once
C25_StringsFreedExactlyOnce ==
    /\ \A blk \in DOMAIN free_count : free_count[blk] <= 1
    /\ \A blk \in VisibleBlocks : blk \in NormalizedBlocks /\ free_count[blk] = 0
    /\ (parse_ret = 0 /\ dlist # NULL) =>
          \A blk \in NormalizedBlocks \ VisibleBlocks : free_count[blk] = 1
    /\ (pc \in {"handled", "exited"} /\ ret = 0) =>
          /\ dlist = NULL
          /\ \A blk \in NormalizedBlocks : free_count[blk] = 1

\* C25 witness: of two normalized departures a filter removed the first,
\* free_departure_list freed the second after its row was printed
C25_Witness ==
    /\ pc = "handled"
    /\ ret = 0
    /\ Len(normalized) = 2
    /\ Len(last_op.before) = 2
    /\ Len(rows) = 1
    /\ args.count = 2
    /\ rows[1].line = Str(normalized[2].line.designation)
    /\ \A blk \in NormalizedBlocks : free_count[blk] = 1

\* an append of the filter loop of sl_search_stops that failed: the strdup
\* of add_stop_to_list returned NULL for the station at index i, whose
\* lower-cased name contains the lower-cased query
FailedAppendAt(i) ==
    /\ alloc = [at |-> i, what |-> "strdup"]
    /\ i < Len(ParsedSites)
    /\ strstr(str_to_lower(Str(ParsedSites[i + 1].name)), str_to_lower(arg_query))

\* C23 (as claimed): an append that fails for lack of memory reports
\* failure and leaves the length and the elements of the list as they
\* were, and the operation that called it fails instead of returning a
\* list that lacks the element; here the operation is sl_search_stops.
C23_AppendFailureFailsTheCaller ==
    /\ slist # NULL =>
         LET failed == add_stop_to_list_nomem(slist, Ptr(TXT_Odenplan), U32_ZERO)
         IN  /\ failed.ret = -1
             /\ VisibleStops(failed.list) = VisibleStops(slist)
    /\ stops_ret = 0 => \A i \in 0..(MaxSites - 1) : ~FailedAppendAt(i)

\* a is b with some elements left out (the first fit decides)
RECURSIVE EmbedsFrom(_, _, _, _)
EmbedsFrom(a, b, i, j) ==
    IF i > Len(a) THEN TRUE
    ELSE IF j > Len(b) THEN FALSE
         ELSE IF a[i] = b[j] THEN EmbedsFrom(a, b, i + 1, j + 1)
              ELSE EmbedsFrom(a, b, i, j + 1)

\* the four strings of the departures a caller may read
Contents(list) ==
    [i \in 1..list.count |->
        [destination |-> list.departures[i - 1].destination,
         expected |-> list.departures[i - 1].expected,
         line |-> list.departures[i - 1].line]]

\* capacity as it was, or doubled by an operation that found the list full
CapacityKeptOrDoubled(before, after) ==
    \/ after.capacity = before.capacity
    \/ before.count = before.capacity /\ after.capacity = 2 * before.capacity

WithinCapacity(list) == list # NULL => 0 <= list.count /\ list.count <= list.capacity

\* the stops were appended in the order of their ids, the departures in the
\* order of their allocations
InInsertionOrder ==
    /\ slist # NULL =>
         \A i \in 1..slist.count : \A j \in 1..slist.count :
             i < j => slist.stops[i - 1].id.lo < slist.stops[j - 1].id.lo
    /\ dlist # NULL =>
         \A i \in 1..dlist.count : \A j \in 1..dlist.count :
             i < j => dlist.departures[i - 1].blk < dlist.departures[j - 1].blk

StopAppendedOrNot ==
    last_op.op = "add_stop" =>
        /\ CapacityKeptOrDoubled(last_op.before, slist)
        /\ last_op.ret = 0 =>
             VisibleStops(slist) = Append(VisibleStops(last_op.before), last_op.token)
        /\ last_op.ret # 0 => VisibleStops(slist) = VisibleStops(last_op.before)

DepartureAppendedOrNot(kinds) ==
    last_op.op = "add_departure" =>
        /\ CapacityKeptOrDoubled(last_op.before, dlist)
        /\ dlist.count = last_op.before.count + (IF last_op.ret = 0 THEN 1 ELSE 0)
        /\ last_op.ret = 0 /\ last_op.mem \in kinds =>
             Contents(dlist) = Append(Contents(last_op.before), last_op.token)
        /\ last_op.ret # 0 => Contents(dlist) = Contents(last_op.before)

FilterRetainsInOrder ==
    last_op.op = "line" =>
        /\ dlist.capacity = last_op.before.capacity
        /\ EmbedsFrom(Visible(dlist), Visible(last_op.before), 1, 1)

AllocationKinds ==
    {"none", "realloc", "destination", "expected", "designation", "group_of_lines"}

\* C24 (as claimed): after any sequence of create, append and filter
\* operations on a stop list or a departure list, 0 <= count <= capacity,
\* the elements at 0..count-1 are the appended and retained elements in
\* insertion order, a successful append increases count by exactly one, and
\* capacity changes only by doubling when an append finds count = capacity.
C24_CountCapacityAndOrder ==
    /\ WithinCapacity(slist)
    /\ WithinCapacity(dlist)
    /\ InInsertionOrder
    /\ StopAppendedOrNot
    /\ DepartureAppendedOrNot(AllocationKinds)
    /\ FilterRetainsInOrder

\* the same, the strings of a departure stored by an append whose copy of
\* group_of_lines failed left aside
C24_ApartFromLostGroupOfLines ==
    /\ WithinCapacity(slist)
    /\ WithinCapacity(dlist)
    /\ InInsertionOrder
    /\ StopAppendedOrNot
    /\ DepartureAppendedOrNot(AllocationKinds \ {"group_of_lines"})
    /\ FilterRetainsInOrder

====
